---- MODULE Spec2Model ----
(***************************************************************************)
(* Model of the analysis-job orchestrator of the Legal Vision server:      *)
(*   - services/analysis.service.ts  createAnalysisJob, processAnalysisJob,*)
(*     processScanJob, getRecentAnalysis                                   *)
(*   - routes/analyze.ts             POST /api/analyze                     *)
(*   - trigger/process-analysis-job.ts  the background task                *)
(*   - services/gemini.service.ts    analyzeWithGemini, analyzeLegalDocument*)
(*   - services/scraper.service.ts   scrapeWebsite                         *)
(*   - utils/security.ts             validateUrlSecurity, normalizeUrl     *)
(* The job store is the analysisJob table; a job id is the index of the    *)
(* record in the sequence jobs.                                            *)
(***************************************************************************)
EXTENDS Integers, Sequences, FiniteSets, TLC

\* ---------------------------------------------------------------- bounds
\* number of POST /api/analyze requests issued in a behaviour
MaxRequests == 2
\* largest value of the clock
MaxTime == 1
\* number of store operations that throw in a behaviour
MaxFaults == 1

\* ------------------------------------------------------- program constants
\* trigger.config.ts retries.default.maxAttempts
TaskMaxAttempts == 3
\* gemini.service.ts and scraper.service.ts MAX_RETRIES
MAX_RETRIES == 3
\* gemini.service.ts and scraper.service.ts INITIAL_RETRY_DELAY, in milliseconds
INITIAL_RETRY_DELAY == 1000
\* getRecentAnalysis: the freshness window, 7 days, in clock units of one day
SevenDays == 7

NULL == "null"

Clients == {"c1", "c2"}
Workers == {"w1", "w2"}
JobIds == 1..MaxRequests

\* ------------------------------------------------------------------ enums
\* prisma enum ScanPhase, in the order of SCAN_PHASE_PROGRESS
PhaseOrder ==
  <<"SCAN_CREATED", "TERMS_DISCOVERED", "DOCUMENT_FETCHED", "NORMALIZED",
    "ANALYZING", "SUMMARIZING", "COMPLETE">>

ScanPhase == {PhaseOrder[i] : i \in DOMAIN PhaseOrder} \cup {"FAILED"}

AnalysisStatus == {"PENDING", "SCRAPING", "ANALYZING", "COMPLETED", "FAILED"}

SCAN_PHASE_PROGRESS(phase) ==
  CASE phase = "SCAN_CREATED" -> 0
    [] phase = "TERMS_DISCOVERED" -> 5
    [] phase = "DOCUMENT_FETCHED" -> 25
    [] phase = "NORMALIZED" -> 40
    [] phase = "ANALYZING" -> 70
    [] phase = "SUMMARIZING" -> 90
    [] phase = "COMPLETE" -> 100
    [] phase = "FAILED" -> 0

\* --------------------------------------------------------------- the URLs
\* A URL is an index into UrlTable; the table is in the lexicographic order of
\* the URL strings, so the order of the indices is the order Array.sort uses.
\*   1  https://a.com/terms      2  https://a.com/terms/     3  https://b.com/privacy
\*   4  https://localhost/admin
UrlTable ==
  <<[host |-> "a.com", path |-> "terms", slash |-> FALSE],
    [host |-> "a.com", path |-> "terms", slash |-> TRUE],
    [host |-> "b.com", path |-> "privacy", slash |-> FALSE],
    [host |-> "localhost", path |-> "admin", slash |-> FALSE]>>

Urls == DOMAIN UrlTable

\* utils/security.ts normalizeUrl: the trailing slash of the path is removed
normalizeUrl(u) ==
  CHOOSE n \in Urls : UrlTable[n] = [UrlTable[u] EXCEPT !.slash = FALSE]

\* utils/security.ts validateUrlSecurity(url).valid: every URL of the table is
\* https with a host name, so the protocol check and the private IPv4 ranges do
\* not apply; the host is compared with the loopback and metadata names
validateUrlSecurity(u) ==
  UrlTable[u].host \notin {"localhost", "127.0.0.1", "::1", "0.0.0.0", "[::1]",
                           "169.254.169.254", "metadata.google.internal"}

\* ------------------------------------------------------- sequence helpers
\* Array.filter(u => u !== x)
RECURSIVE SeqFilter(_, _)
SeqFilter(s, x) ==
  IF s = <<>> THEN <<>>
  ELSE IF Head(s) = x THEN SeqFilter(Tail(s), x)
  ELSE <<Head(s)>> \o SeqFilter(Tail(s), x)

RECURSIVE Insert(_, _)
Insert(x, s) ==
  IF s = <<>> THEN <<x>>
  ELSE IF x <= Head(s) THEN <<x>> \o s
  ELSE <<Head(s)>> \o Insert(x, Tail(s))

\* Array.sort(): ascending, duplicates kept
RECURSIVE SortAsc(_)
SortAsc(s) == IF s = <<>> THEN <<>> ELSE Insert(Head(s), SortAsc(Tail(s)))

\* ------------------------------------------------------ idempotency keys
\* A key is the digest's preimage (sha256 is taken as injective): the sorted
\* URL list and the content hash for a derived key, the string for a supplied one.
NoKey == [urls |-> <<>>, hash |-> NULL, given |-> NULL]

\* utils/hash.ts buildScanIdempotencyKey
buildScanIdempotencyKey(pageUrl, documentUrls, contentHashValue) ==
  [urls |-> SortAsc(<<pageUrl>> \o documentUrls), hash |-> contentHashValue, given |-> NULL]

\* createAnalysisJob line 464
DocumentUrls(url, additionalUrls) ==
  IF Len(additionalUrls) > 0 THEN <<url>> \o SeqFilter(additionalUrls, url) ELSE <<url>>

\* createAnalysisJob lines 466-468
IdempotencyKeyOf(url, analysisType, additionalUrls, givenKey, contentHashValue) ==
  IF givenKey # NULL THEN [urls |-> <<>>, hash |-> NULL, given |-> givenKey]
  ELSE IF analysisType = "legal"
       THEN buildScanIdempotencyKey(url, DocumentUrls(url, additionalUrls), contentHashValue)
       ELSE NoKey

\* ------------------------------------------------------------ the requests
\* The bodies of POST /api/analyze the clients send.
Requests ==
  { [url |-> 1, urls |-> <<>>, analysisType |-> "legal", idempotencyKey |-> NULL, contentHash |-> NULL],
    [url |-> 2, urls |-> <<2, 3>>, analysisType |-> "legal", idempotencyKey |-> NULL, contentHash |-> NULL],
    [url |-> 1, urls |-> <<>>, analysisType |-> "seo", idempotencyKey |-> NULL, contentHash |-> NULL] }

\* Bodies with a URL the security gate rejects: as the only URL, as the second
\* of urls, and in the url field of a legal body whose urls are all safe
GateRequests ==
  { [url |-> 1, urls |-> <<>>, analysisType |-> "legal", idempotencyKey |-> NULL, contentHash |-> NULL],
    [url |-> 4, urls |-> <<>>, analysisType |-> "seo", idempotencyKey |-> NULL, contentHash |-> NULL],
    [url |-> 1, urls |-> <<1, 4>>, analysisType |-> "legal", idempotencyKey |-> NULL, contentHash |-> NULL],
    [url |-> 4, urls |-> <<2, 3>>, analysisType |-> "legal", idempotencyKey |-> NULL, contentHash |-> NULL],
    [url |-> 3, urls |-> <<>>, analysisType |-> "seo", idempotencyKey |-> NULL, contentHash |-> NULL] }

NoRequest == [url |-> 0, urls |-> <<>>, analysisType |-> NULL, idempotencyKey |-> NULL, contentHash |-> NULL]

\* routes/analyze.ts lines 58-59
UrlsToAnalyze(r) ==
  IF r.analysisType = "legal" /\ Len(r.urls) > 0 THEN r.urls ELSE <<r.url>>

PrimaryUrl(r) == UrlsToAnalyze(r)[1]

\* routes/analyze.ts line 73: the additionalUrls argument (<<>> is undefined)
AdditionalUrlsArg(r) ==
  IF Len(UrlsToAnalyze(r)) > 1 THEN UrlsToAnalyze(r) ELSE <<>>

RequestKey(r) ==
  IdempotencyKeyOf(PrimaryUrl(r), r.analysisType, AdditionalUrlsArg(r), r.idempotencyKey, r.contentHash)

\* ------------------------------------------------------------ the state
VARIABLES
  jobs,        \* the analysisJob table: jobs[id] is the record with that id
  now,         \* the clock, in days
  requests,    \* number of POST requests issued so far
  faults,      \* number of store operations that have thrown so far
  deliveries,  \* deliveries[id][a]: queued runs of the task for job id, at attempt a
  cpc,         \* position of each client's POST handler
  creq,        \* the request body a client's handler is serving
  cres,        \* what createAnalysisJob returned, and the HTTP response
  wpc,         \* position of each task run in processAnalysisJob
  wrun,        \* the run's payload (jobId) and its attempt; late: the job was
               \* already in a terminal state when the run started; overlapped:
               \* another run for the same job was in flight during this one;
               \* startPhase: the stored currentPhase when the run started
  wloc,        \* the run's locals: currentPhase, phaseTimestamps, allUrls, error
  retry,       \* a call of a collaborator with retries: the attempts made so far
  eval         \* a call of one of the program's functions that works on its
               \* arguments alone: the function, the argument, the value returned

vars == <<jobs, now, requests, faults, deliveries, cpc, creq, cres, wpc, wrun, wloc, retry, eval>>

cvars == <<cpc, creq, cres>>
wvars == <<wpc, wrun, wloc>>

NoTimestamps == [p \in {} |-> 0]

\* setPhaseTimestamp: { ...phaseTimestamps, [phase]: new Date().toISOString() }
setPhaseTimestamp(phaseTimestamps, phase) ==
  [p \in DOMAIN phaseTimestamps \cup {phase} |->
     IF p = phase THEN now ELSE phaseTimestamps[p]]

\* createAnalysisJob lines 506-536: the data of the record to insert
JobData(url, normalized, analysisType, additionalUrls, key, contentHashValue) ==
  [ url |-> url,
    normalizedUrl |-> normalized,
    analysisType |-> analysisType,
    status |-> "PENDING",
    additionalUrls |-> IF Len(additionalUrls) > 1 THEN additionalUrls ELSE <<>>,
    scraped |-> FALSE,
    currentPhase |-> IF analysisType = "legal" THEN "SCAN_CREATED" ELSE NULL,
    phaseTimestamps |->
      IF analysisType = "legal" THEN setPhaseTimestamp(NoTimestamps, "SCAN_CREATED")
      ELSE NoTimestamps,
    progressPercent |->
      IF analysisType = "legal" THEN SCAN_PHASE_PROGRESS("SCAN_CREATED") ELSE -1,
    contentHash |-> IF analysisType = "legal" THEN contentHashValue ELSE NULL,
    idempotencyKey |-> IF analysisType = "legal" THEN key ELSE NoKey,
    analysis |-> NULL,
    earlyFindings |-> NULL,
    errorMessage |-> NULL,
    lastCompletedPhase |-> NULL,
    createdAt |-> now,
    completedAt |-> -1 ]

\* prisma.analysisJob.findUnique({ where: { idempotencyKey } }): the id, or 0
FindByIdempotencyKey(key) ==
  IF \E id \in DOMAIN jobs : jobs[id].idempotencyKey = key
  THEN CHOOSE id \in DOMAIN jobs : jobs[id].idempotencyKey = key
  ELSE 0

\* A table with no unique index on the key
UniqueViolation_NoIndex(data) == FALSE

\* The unique index on analysisJob.idempotencyKey (prisma/schema.prisma):
\* create rejects a record whose non-null key is already in the table.
UniqueViolation(data) ==
  /\ data.idempotencyKey # NoKey
  /\ \E id \in DOMAIN jobs : jobs[id].idempotencyKey = data.idempotencyKey

\* getRecentAnalysis: the where clause
RecentMatch(job, normalized, contentHashValue) ==
  /\ job.normalizedUrl = normalized
  /\ job.status = "COMPLETED"
  /\ job.completedAt >= now - SevenDays
  /\ (contentHashValue # NULL => job.contentHash = contentHashValue)

\* getRecentAnalysis: findFirst ordered by completedAt desc; the id, or 0
getRecentAnalysis(normalized, contentHashValue) ==
  LET hits == {id \in DOMAIN jobs : RecentMatch(jobs[id], normalized, contentHashValue)}
  IN IF hits = {} THEN 0
     ELSE CHOOSE id \in hits : \A o \in hits : jobs[o].completedAt <= jobs[id].completedAt

NoResult == [outcome |-> "none", jobId |-> 0, status |-> NULL, isCached |-> FALSE, http |-> 0]

NoRun == [jobId |-> 0, attempt |-> 0, late |-> FALSE, overlapped |-> FALSE, startPhase |-> NULL]

NoLocals == [currentPhase |-> NULL, phaseTimestamps |-> NoTimestamps, allUrls |-> <<>>,
             error |-> NULL, existingPhase |-> NULL, existingType |-> NULL]

\* No call of a collaborator is being made
NoCall == [fn |-> NULL, provider |-> NULL, attempt |-> 0, outcomes |-> <<>>,
           delays |-> <<>>, pc |-> "idle"]

\* No function is being evaluated
NoEval == [fn |-> NULL, arg |-> NULL, out |-> NULL, pc |-> "idle"]

Init ==
  /\ jobs = <<>>
  /\ now = 0
  /\ requests = 0
  /\ faults = 0
  /\ deliveries = [id \in JobIds |-> [a \in 1..TaskMaxAttempts |-> 0]]
  /\ cpc = [c \in Clients |-> "idle"]
  /\ creq = [c \in Clients |-> NoRequest]
  /\ cres = [c \in Clients |-> NoResult]
  /\ wpc = [w \in Workers |-> "idle"]
  /\ wrun = [w \in Workers |-> NoRun]
  /\ wloc = [w \in Workers |-> NoLocals]
  /\ retry = NoCall
  /\ eval = NoEval

\* ---------------------------------------------------------------- the clock
Tick ==
  /\ now < MaxTime
  /\ now' = now + 1
  /\ UNCHANGED <<jobs, requests, faults, deliveries, cvars, wvars, retry, eval>>

\* The freshness window of getRecentAnalysis goes by with nothing happening
Elapse ==
  /\ now <= MaxTime
  /\ now' = now + SevenDays + 1
  /\ UNCHANGED <<jobs, requests, faults, deliveries, cvars, wvars, retry, eval>>

\* ------------------------------------------- POST /api/analyze (the client)
\* The arguments the route passes to createAnalysisJob for the request of c.
ArgUrl(c) == PrimaryUrl(creq[c])
ArgNormalized(c) == normalizeUrl(PrimaryUrl(creq[c]))
ArgAdditional(c) == AdditionalUrlsArg(creq[c])
ArgKey(c) == RequestKey(creq[c])

\* createAnalysisJob returns { jobId, status, isCached }; routes/analyze.ts line 78
\* sends a completed cached job to the read of line 80, any other to the trigger
Returned(c, id, status, isCached) ==
  /\ cres' = [cres EXCEPT ![c] =
               [outcome |-> "ok", jobId |-> id, status |-> status, isCached |-> isCached, http |-> 0]]
  /\ cpc' = [cpc EXCEPT ![c] = IF status = "COMPLETED" /\ isCached THEN "route" ELSE "trigger"]

\* A gate that looks at the primary URL only
GatePasses_PrimaryOnly(r) == validateUrlSecurity(PrimaryUrl(r))

\* routes/analyze.ts line 64: assertUrlSecurity passes for every URL to analyze
GatePasses(r) ==
  \A i \in DOMAIN UrlsToAnalyze(r) : validateUrlSecurity(UrlsToAnalyze(r)[i])

\* routes/analyze.ts lines 49-75: the body is validated, a URL the gate rejects
\* ends the request with a SecurityError (403), and createAnalysisJob is
\* entered; lines 464-471 choose between the idempotency lookup and the cache.
Request(c, r) ==
  /\ cpc[c] \in {"idle", "done", "failed"}
  /\ requests < MaxRequests
  /\ requests' = requests + 1
  /\ creq' = [creq EXCEPT ![c] = r]
  /\ IF GatePasses(r)
     THEN /\ cres' = [cres EXCEPT ![c] = NoResult]
          /\ cpc' = [cpc EXCEPT ![c] =
                       IF r.analysisType = "legal" /\ RequestKey(r) # NoKey THEN "idem" ELSE "cache"]
     ELSE /\ cres' = [cres EXCEPT ![c] = [NoResult EXCEPT !.outcome = "SecurityError",
                                                           !.http = 403]]
          /\ cpc' = [cpc EXCEPT ![c] = "failed"]
  /\ UNCHANGED <<jobs, now, faults, deliveries, wvars, retry, eval>>

\* A lookup that takes a failed job for no job
IdempotentHit_SkipFailed(c) ==
  LET id == FindByIdempotencyKey(ArgKey(c)) IN
    IF id # 0 /\ jobs[id].status = "FAILED" THEN 0 ELSE id

\* createAnalysisJob lines 472-476: the existing job the lookup returns
IdempotentHit(c) == FindByIdempotencyKey(ArgKey(c))

\* createAnalysisJob lines 478-483: the status reported for an existing job
IdempotentStatus(job) ==
  IF job.currentPhase = "COMPLETE" THEN "COMPLETED"
  ELSE IF job.status = "FAILED" THEN "FAILED"
  ELSE job.status

\* createAnalysisJob lines 471-486
CreateIdempotency(c) ==
  /\ cpc[c] = "idem"
  /\ LET existing == IdempotentHit(c) IN
       IF existing # 0
       THEN Returned(c, existing, IdempotentStatus(jobs[existing]),
                     jobs[existing].currentPhase = "COMPLETE")
       ELSE /\ cpc' = [cpc EXCEPT ![c] = "cache"]
            /\ UNCHANGED cres
  /\ UNCHANGED <<jobs, now, requests, faults, deliveries, creq, wvars, retry, eval>>

\* createAnalysisJob lines 489-490: getRecentAnalysis; the hit is kept in cres
CreateCacheLookup(c) ==
  /\ cpc[c] = "cache"
  /\ LET recent == getRecentAnalysis(ArgNormalized(c), creq[c].contentHash) IN
       IF recent # 0
       THEN /\ cres' = [cres EXCEPT ![c] = [NoResult EXCEPT !.jobId = recent,
                                                             !.status = jobs[recent].status]]
            /\ cpc' = [cpc EXCEPT ![c] = "verifyCached"]
       ELSE /\ cpc' = [cpc EXCEPT ![c] = "insert"]
            /\ UNCHANGED cres
  /\ UNCHANGED <<jobs, now, requests, faults, deliveries, creq, wvars, retry, eval>>

\* createAnalysisJob lines 492-502: the hit is read again against the window
CreateVerifyCached(c) ==
  /\ cpc[c] = "verifyCached"
  /\ LET recent == cres[c].jobId IN
       IF jobs[recent].completedAt >= now - SevenDays
       THEN Returned(c, recent, cres[c].status, TRUE)
       ELSE /\ cres' = [cres EXCEPT ![c] = NoResult]
            /\ cpc' = [cpc EXCEPT ![c] = "insert"]
  /\ UNCHANGED <<jobs, now, requests, faults, deliveries, creq, wvars, retry, eval>>

\* createAnalysisJob lines 506-569: prisma create, and the read-back of the new
\* record by id; a violation of the unique index is thrown by create and
\* leaves the call as a DatabaseError
CreateInsert(c) ==
  /\ cpc[c] = "insert"
  /\ LET data == JobData(ArgUrl(c), ArgNormalized(c), creq[c].analysisType,
                         ArgAdditional(c), ArgKey(c), creq[c].contentHash) IN
       IF UniqueViolation(data)
       THEN /\ cres' = [cres EXCEPT ![c] = [NoResult EXCEPT !.outcome = "DatabaseError",
                                                             !.http = 500]]
            /\ cpc' = [cpc EXCEPT ![c] = "failed"]
            /\ UNCHANGED jobs
       ELSE /\ jobs' = Append(jobs, data)
            /\ Returned(c, Len(jobs) + 1, "PENDING", FALSE)
  /\ UNCHANGED <<now, requests, faults, deliveries, creq, wvars, retry, eval>>

\* createAnalysisJob lines 563-569: a store operation of the call throws
CreateStoreFault(c) ==
  /\ cpc[c] \in {"idem", "cache", "verifyCached", "insert"}
  /\ faults < MaxFaults
  /\ faults' = faults + 1
  /\ cres' = [cres EXCEPT ![c] = [NoResult EXCEPT !.outcome = "StoreFault", !.http = 500]]
  /\ cpc' = [cpc EXCEPT ![c] = "failed"]
  /\ UNCHANGED <<jobs, now, requests, deliveries, creq, wvars, retry, eval>>

\* routes/analyze.ts lines 78-111: a completed cached job is answered at once
RouteCached(c) ==
  /\ cpc[c] = "route"
  /\ LET id == cres[c].jobId IN
       IF /\ cres[c].status = "COMPLETED" /\ cres[c].isCached
          /\ jobs[id].analysis # NULL /\ jobs[id].status = "COMPLETED"
       THEN /\ cres' = [cres EXCEPT ![c].http = 200]
            /\ cpc' = [cpc EXCEPT ![c] = "done"]
       ELSE /\ cpc' = [cpc EXCEPT ![c] = "trigger"]
            /\ UNCHANGED cres
  /\ UNCHANGED <<jobs, now, requests, faults, deliveries, creq, wvars, retry, eval>>

\* A route that waits for the job of every request, legal ones included
RouteTrigger_AlwaysWaits(c) ==
  /\ cpc[c] = "trigger"
  /\ deliveries' = [deliveries EXCEPT ![cres[c].jobId][1] = @ + 1]
  /\ cpc' = [cpc EXCEPT ![c] = "wait"]
  /\ UNCHANGED <<jobs, now, requests, faults, creq, cres, wvars, retry, eval>>

\* routes/analyze.ts lines 114-129: the task is triggered for the job; a legal
\* request is answered 202 without waiting
RouteTrigger(c) ==
  /\ cpc[c] = "trigger"
  /\ deliveries' = [deliveries EXCEPT ![cres[c].jobId][1] = @ + 1]
  /\ IF creq[c].analysisType = "legal"
     THEN /\ cres' = [cres EXCEPT ![c].http = 202]
          /\ cpc' = [cpc EXCEPT ![c] = "done"]
     ELSE /\ cpc' = [cpc EXCEPT ![c] = "wait"]
          /\ UNCHANGED cres
  /\ UNCHANGED <<jobs, now, requests, faults, creq, wvars, retry, eval>>

\* waitForJobCompletion lines 119-167 with routes/analyze.ts lines 132-176: one
\* poll of the job; a completed job is answered 200, a failed one 202
RoutePoll(c) ==
  /\ cpc[c] = "wait"
  /\ LET job == jobs[cres[c].jobId] IN
       /\ job.status \in {"COMPLETED", "FAILED"}
       /\ cres' = [cres EXCEPT ![c].http =
                     IF job.status = "COMPLETED" /\ job.analysis # NULL /\ job.completedAt >= 0
                     THEN 200 ELSE 202]
  /\ cpc' = [cpc EXCEPT ![c] = "done"]
  /\ UNCHANGED <<jobs, now, requests, faults, deliveries, creq, wvars, retry, eval>>

\* A waiter that marks the job failed when its wait times out
RouteTimeout_FailsJob(c) ==
  /\ cpc[c] = "wait"
  /\ jobs' = [jobs EXCEPT ![cres[c].jobId].status = "FAILED"]
  /\ cres' = [cres EXCEPT ![c].http = 202]
  /\ cpc' = [cpc EXCEPT ![c] = "done"]
  /\ UNCHANGED <<now, requests, faults, deliveries, creq, wvars, retry, eval>>

\* waitForJobCompletion line 169 with routes/analyze.ts lines 165-176: the
\* wait times out and the job id is returned for polling
RouteTimeout(c) ==
  /\ cpc[c] = "wait"
  /\ cres' = [cres EXCEPT ![c].http = 202]
  /\ cpc' = [cpc EXCEPT ![c] = "done"]
  /\ UNCHANGED <<jobs, now, requests, faults, deliveries, creq, wvars, retry, eval>>

\* The steps of a request being served, when the store answers
ClientCall(c) ==
  \/ CreateIdempotency(c)
  \/ CreateCacheLookup(c)
  \/ CreateVerifyCached(c)
  \/ CreateInsert(c)
  \/ RouteCached(c)
  \/ RouteTrigger(c)
  \/ RoutePoll(c)
  \/ RouteTimeout(c)

\* The handler's steps when the store answers
ClientSteps(c) ==
  \/ \E r \in Requests : Request(c, r)
  \/ ClientCall(c)

\* ------------------------------------- the task run (processAnalysisJob)
\* prisma.analysisJob.update({ where: { id }, data }): a partial update
Update(id, data) ==
  jobs' = [jobs EXCEPT ![id] = data @@ @]

Goto(w, pc) == wpc' = [wpc EXCEPT ![w] = pc]

JobOf(w) == wrun[w].jobId

\* processAnalysisJob returns: the run ends and its locals are gone
Return(w) ==
  /\ wpc' = [wpc EXCEPT ![w] = "idle"]
  /\ wrun' = [wrun EXCEPT ![w] = NoRun]
  /\ wloc' = [wloc EXCEPT ![w] = NoLocals]

\* processAnalysisJob line 252: the error is caught
Caught(w, error) ==
  /\ wpc' = [wpc EXCEPT ![w] = "catch"]
  /\ wloc' = [wloc EXCEPT ![w].error = error]
  /\ UNCHANGED wrun

\* processScanJob lines 331-336: allUrls from the job as it was read
AllUrls(job) ==
  IF Len(job.additionalUrls) > 0
  THEN <<job.url>> \o SeqFilter(job.additionalUrls, job.url)
  ELSE <<job.url>>

\* A run that fetches again from every phase up to DOCUMENT_FETCHED
ResumePoint_FetchAgain(currentPhase) ==
  CASE currentPhase \in {"COMPLETE", "FAILED"} -> "idle"
    [] currentPhase = "SCAN_CREATED" -> "toTerms"
    [] currentPhase \in {"TERMS_DISCOVERED", "DOCUMENT_FETCHED"} -> "fetch"
    [] currentPhase = "NORMALIZED" -> "toAnalyzing"
    [] OTHER -> "idle"

\* processScanJob lines 307-377: the step a run takes next for a phase; "idle"
\* is the return of line 312 or the fall through every if of lines 316-377
ResumePoint(currentPhase) ==
  CASE currentPhase \in {"COMPLETE", "FAILED"} -> "idle"
    [] currentPhase = "SCAN_CREATED" -> "toTerms"
    [] currentPhase = "TERMS_DISCOVERED" -> "fetch"
    [] currentPhase = "DOCUMENT_FETCHED" -> "toNormalized"
    [] currentPhase = "NORMALIZED" -> "toAnalyzing"
    [] OTHER -> "idle"

\* A job in a terminal state: status COMPLETED or FAILED, or for a legal job
\* currentPhase COMPLETE or FAILED (processScanJob line 310)
Terminal(job) ==
  \/ job.status \in {"COMPLETED", "FAILED"}
  \/ job.currentPhase \in {"COMPLETE", "FAILED"}

\* trigger/process-analysis-job.ts: a queued run of the task starts
TaskStart(w, id, a) ==
  /\ wpc[w] = "idle"
  /\ deliveries[id][a] > 0
  /\ deliveries' = [deliveries EXCEPT ![id][a] = @ - 1]
  /\ wrun' = [v \in Workers |->
                IF v = w
                THEN [jobId |-> id, attempt |-> a, late |-> Terminal(jobs[id]),
                      overlapped |-> \E o \in Workers : wrun[o].jobId = id,
                      startPhase |-> jobs[id].currentPhase]
                ELSE IF wrun[v].jobId = id THEN [wrun[v] EXCEPT !.overlapped = TRUE]
                ELSE wrun[v]]
  /\ Goto(w, "read")
  /\ UNCHANGED <<jobs, now, requests, faults, cvars, wloc, retry, eval>>

\* processAnalysisJob lines 179-198 and processScanJob lines 306-313: the job is
\* read; a legal job resumes at its stored phase, any other must be PENDING
ProcRead(w) ==
  /\ wpc[w] = "read"
  /\ LET job == jobs[JobOf(w)]
         next == IF job.analysisType = "legal" THEN ResumePoint(job.currentPhase)
                 ELSE IF job.status = "PENDING" THEN "toScraping" ELSE "idle"
     IN IF next = "idle" THEN Return(w)
        ELSE /\ Goto(w, next)
             /\ UNCHANGED wrun
             /\ wloc' = IF job.analysisType = "legal"
                        THEN [wloc EXCEPT ![w].currentPhase = job.currentPhase,
                                          ![w].phaseTimestamps = job.phaseTimestamps,
                                          ![w].allUrls = AllUrls(job)]
                        ELSE wloc
  /\ UNCHANGED <<jobs, now, requests, faults, deliveries, cvars, retry, eval>>

\* processScanJob lines 318-328, 347-358, 363-373: the update that enters a
\* phase, with the timestamps of the run's local copy
PhaseWrite(w, phase, more) ==
  LET ts == setPhaseTimestamp(wloc[w].phaseTimestamps, phase) IN
    /\ Update(JobOf(w), more @@ [currentPhase |-> phase, phaseTimestamps |-> ts,
                                 progressPercent |-> SCAN_PHASE_PROGRESS(phase)])
    /\ wloc' = [wloc EXCEPT ![w].currentPhase = phase, ![w].phaseTimestamps = ts]

NoFields == [x \in {} |-> NULL]

\* processScanJob lines 316-329
ScanTermsDiscovered(w) ==
  /\ wpc[w] = "toTerms"
  /\ PhaseWrite(w, "TERMS_DISCOVERED", NoFields)
  /\ Goto(w, "fetch")
  /\ UNCHANGED <<now, requests, faults, deliveries, cvars, wrun, retry, eval>>

\* processScanJob lines 339-359: scrapeWebsite(job.url) returns the content or
\* throws after its retries; the content is stored with allUrls
ScanFetch(w, ok) ==
  /\ wpc[w] = "fetch"
  /\ IF ok
     THEN /\ PhaseWrite(w, "DOCUMENT_FETCHED",
                        [scraped |-> TRUE, additionalUrls |-> wloc[w].allUrls])
          /\ Goto(w, "toNormalized")
          /\ UNCHANGED wrun
     ELSE /\ Caught(w, "ScrapingError")
          /\ UNCHANGED jobs
  /\ UNCHANGED <<now, requests, faults, deliveries, cvars, retry, eval>>

\* processScanJob lines 362-374
ScanNormalized(w) ==
  /\ wpc[w] = "toNormalized"
  /\ PhaseWrite(w, "NORMALIZED", NoFields)
  /\ Goto(w, "toAnalyzing")
  /\ UNCHANGED <<now, requests, faults, deliveries, cvars, wrun, retry, eval>>

\* processScanJob lines 377-386: ANALYZING is written with tsAnalyzing; the
\* local currentPhase stays NORMALIZED, and tsAnalyzing is kept for line 404
ScanAnalyzing(w) ==
  /\ wpc[w] = "toAnalyzing"
  /\ LET tsAnalyzing == setPhaseTimestamp(wloc[w].phaseTimestamps, "ANALYZING") IN
       /\ Update(JobOf(w), [currentPhase |-> "ANALYZING", phaseTimestamps |-> tsAnalyzing,
                            progressPercent |-> SCAN_PHASE_PROGRESS("ANALYZING")])
       /\ wloc' = [wloc EXCEPT ![w].phaseTimestamps = tsAnalyzing]
  /\ Goto(w, "analyze")
  /\ UNCHANGED <<now, requests, faults, deliveries, cvars, wrun, retry, eval>>

\* The SUMMARIZING update without the early findings
ScanAnalyze_NoFindings(w, ok) ==
  /\ wpc[w] = "analyze"
  /\ IF ok
     THEN /\ LET tsSummarizing == setPhaseTimestamp(wloc[w].phaseTimestamps, "SUMMARIZING") IN
               /\ Update(JobOf(w), [currentPhase |-> "SUMMARIZING",
                                    phaseTimestamps |-> tsSummarizing,
                                    progressPercent |-> SCAN_PHASE_PROGRESS("SUMMARIZING")])
               /\ wloc' = [wloc EXCEPT ![w].phaseTimestamps = tsSummarizing]
          /\ Goto(w, "toComplete")
          /\ UNCHANGED wrun
     ELSE /\ Caught(w, "GeminiError")
          /\ UNCHANGED jobs
  /\ UNCHANGED <<now, requests, faults, deliveries, cvars, retry, eval>>

\* processScanJob lines 388-415: the engine returns the analysis or throws after
\* its retries; the early findings are stored with SUMMARIZING
ScanAnalyze(w, ok) ==
  /\ wpc[w] = "analyze"
  /\ IF ok
     THEN /\ LET tsSummarizing == setPhaseTimestamp(wloc[w].phaseTimestamps, "SUMMARIZING") IN
               /\ Update(JobOf(w), [earlyFindings |-> "findings", currentPhase |-> "SUMMARIZING",
                                    phaseTimestamps |-> tsSummarizing,
                                    progressPercent |-> SCAN_PHASE_PROGRESS("SUMMARIZING")])
               /\ wloc' = [wloc EXCEPT ![w].phaseTimestamps = tsSummarizing]
          /\ Goto(w, "toComplete")
          /\ UNCHANGED wrun
     ELSE /\ Caught(w, "GeminiError")
          /\ UNCHANGED jobs
  /\ UNCHANGED <<now, requests, faults, deliveries, cvars, retry, eval>>

\* A COMPLETE update that leaves the status as it is
ScanComplete_KeepsStatus(w) ==
  /\ wpc[w] = "toComplete"
  /\ LET tsComplete == setPhaseTimestamp(wloc[w].phaseTimestamps, "COMPLETE") IN
       Update(JobOf(w), [analysis |-> "analysis", completedAt |-> now,
                         currentPhase |-> "COMPLETE", phaseTimestamps |-> tsComplete,
                         progressPercent |-> SCAN_PHASE_PROGRESS("COMPLETE")])
  /\ Return(w)
  /\ UNCHANGED <<now, requests, faults, deliveries, cvars, retry, eval>>

\* processScanJob lines 417-441
ScanComplete(w) ==
  /\ wpc[w] = "toComplete"
  /\ LET tsComplete == setPhaseTimestamp(wloc[w].phaseTimestamps, "COMPLETE") IN
       Update(JobOf(w), [status |-> "COMPLETED", analysis |-> "analysis", completedAt |-> now,
                         currentPhase |-> "COMPLETE", phaseTimestamps |-> tsComplete,
                         progressPercent |-> SCAN_PHASE_PROGRESS("COMPLETE")])
  /\ Return(w)
  /\ UNCHANGED <<now, requests, faults, deliveries, cvars, retry, eval>>

\* processAnalysisJob lines 202-205
SimpleScraping(w) ==
  /\ wpc[w] = "toScraping"
  /\ Update(JobOf(w), [status |-> "SCRAPING"])
  /\ Goto(w, "scrape")
  /\ UNCHANGED <<now, requests, faults, deliveries, cvars, wrun, wloc, retry, eval>>

\* processAnalysisJob lines 207-215
SimpleScrape(w, ok) ==
  /\ wpc[w] = "scrape"
  /\ IF ok
     THEN /\ Update(JobOf(w), [scraped |-> TRUE])
          /\ Goto(w, "toAnalyzingStatus")
          /\ UNCHANGED <<wrun, wloc>>
     ELSE /\ Caught(w, "ScrapingError")
          /\ UNCHANGED jobs
  /\ UNCHANGED <<now, requests, faults, deliveries, cvars, retry, eval>>

\* processAnalysisJob lines 217-220
SimpleAnalyzing(w) ==
  /\ wpc[w] = "toAnalyzingStatus"
  /\ Update(JobOf(w), [status |-> "ANALYZING"])
  /\ Goto(w, "analyzeSimple")
  /\ UNCHANGED <<now, requests, faults, deliveries, cvars, wrun, wloc, retry, eval>>

\* processAnalysisJob lines 222-251: the update returns the row it wrote, so
\* the check of line 244 passes
SimpleAnalyze(w, ok) ==
  /\ wpc[w] = "analyzeSimple"
  /\ IF ok
     THEN /\ Update(JobOf(w), [status |-> "COMPLETED", analysis |-> "analysis",
                               completedAt |-> now])
          /\ Return(w)
     ELSE /\ Caught(w, "GeminiError")
          /\ UNCHANGED jobs
  /\ UNCHANGED <<now, requests, faults, deliveries, cvars, retry, eval>>

\* The positions of the try block at which a store operation is awaited
TryStorePoints ==
  {"read", "toTerms", "fetch", "toNormalized", "toAnalyzing", "analyze",
   "toComplete", "toScraping", "scrape", "toAnalyzingStatus", "analyzeSimple"}

\* processAnalysisJob line 252: a store operation of the try block throws
ProcStoreFault(w) ==
  /\ wpc[w] \in TryStorePoints
  /\ faults < MaxFaults
  /\ faults' = faults + 1
  /\ Caught(w, "StoreError")
  /\ UNCHANGED <<jobs, now, requests, deliveries, cvars, retry, eval>>

\* processAnalysisJob lines 259-263: the catch block reads the job again
CatchRead(w) ==
  /\ wpc[w] = "catch"
  /\ wloc' = [wloc EXCEPT ![w].existingPhase = jobs[JobOf(w)].currentPhase,
                          ![w].existingType = jobs[JobOf(w)].analysisType]
  /\ Goto(w, "failWrite")
  /\ UNCHANGED <<jobs, now, requests, faults, deliveries, cvars, wrun, retry, eval>>

\* A failure update that also writes the progress of the FAILED phase
FailureData_ResetsProgress(error, existingType, existingPhase) ==
  IF existingType = "legal"
  THEN [status |-> "FAILED", errorMessage |-> error, currentPhase |-> "FAILED",
        lastCompletedPhase |-> existingPhase,
        progressPercent |-> SCAN_PHASE_PROGRESS("FAILED")]
  ELSE [status |-> "FAILED", errorMessage |-> error]

\* processAnalysisJob lines 267-277: the data of the failure update
FailureData(error, existingType, existingPhase) ==
  IF existingType = "legal"
  THEN IF existingPhase # NULL
       THEN [status |-> "FAILED", errorMessage |-> error, currentPhase |-> "FAILED",
             lastCompletedPhase |-> existingPhase]
       ELSE [status |-> "FAILED", errorMessage |-> error, currentPhase |-> "FAILED"]
  ELSE [status |-> "FAILED", errorMessage |-> error]

\* processAnalysisJob lines 265-279
CatchWrite(w) ==
  /\ wpc[w] = "failWrite"
  /\ Update(JobOf(w), FailureData(wloc[w].error, wloc[w].existingType, wloc[w].existingPhase))
  /\ Return(w)
  /\ UNCHANGED <<now, requests, faults, deliveries, cvars, retry, eval>>

\* A catch block that throws the error it caught again
CatchStoreFault_Rethrow(w) ==
  /\ wpc[w] \in {"catch", "failWrite"}
  /\ deliveries' =
       IF wrun[w].attempt < TaskMaxAttempts
       THEN [deliveries EXCEPT ![JobOf(w)][wrun[w].attempt + 1] = @ + 1]
       ELSE deliveries
  /\ Return(w)
  /\ UNCHANGED <<jobs, now, requests, faults, cvars, retry, eval>>

\* processAnalysisJob lines 280-286 with trigger.config.ts lines 9-18: a store
\* operation of the catch block throws, processAnalysisJob throws DatabaseError
\* and the task run is retried while it has attempts left
CatchStoreFault(w) ==
  /\ wpc[w] \in {"catch", "failWrite"}
  /\ faults < MaxFaults
  /\ faults' = faults + 1
  /\ deliveries' =
       IF wrun[w].attempt < TaskMaxAttempts
       THEN [deliveries EXCEPT ![JobOf(w)][wrun[w].attempt + 1] = @ + 1]
       ELSE deliveries
  /\ Return(w)
  /\ UNCHANGED <<jobs, now, requests, cvars, retry, eval>>

\* trigger.config.ts maxDuration: a run that lasts longer is stopped where it
\* is; what it has written stays in the store
TaskAborted(w) ==
  /\ wpc[w] # "idle"
  /\ Return(w)
  /\ UNCHANGED <<jobs, now, requests, faults, deliveries, cvars, retry, eval>>

\* The run's steps when the store answers
WorkerSteps(w) ==
  \/ \E id \in JobIds, a \in 1..TaskMaxAttempts : TaskStart(w, id, a)
  \/ ProcRead(w)
  \/ ScanTermsDiscovered(w)
  \/ \E ok \in BOOLEAN : ScanFetch(w, ok)
  \/ ScanNormalized(w)
  \/ ScanAnalyzing(w)
  \/ \E ok \in BOOLEAN : ScanAnalyze(w, ok)
  \/ ScanComplete(w)
  \/ SimpleScraping(w)
  \/ \E ok \in BOOLEAN : SimpleScrape(w, ok)
  \/ SimpleAnalyzing(w)
  \/ \E ok \in BOOLEAN : SimpleAnalyze(w, ok)
  \/ CatchRead(w)
  \/ CatchWrite(w)

\* A store operation throws
StoreFault ==
  \/ \E c \in Clients : CreateStoreFault(c)
  \/ \E w \in Workers : ProcStoreFault(w)
  \/ \E w \in Workers : CatchStoreFault(w)

\* ------------------------------------------- the calls with retries
\* What one attempt of the operation does: it returns, or it throws an error
\* whose message has a rate-limit marker ('429', 'rate limit', 'quota'), or it
\* throws any other error (a response that does not parse included)
Outcomes == {"ok", "rateLimit", "other"}

EngineFunctions == {"analyzeWithGemini", "analyzeLegalDocument"}

\* analyzeWithGemini lines 762-764, analyzeLegalDocument lines 979-981: inside
\* the try of the loop the response is parsed and validated too, and
\* parseAnalysisResponse (lines 695-727) and parseLegalAnalysisResponse (lines
\* 903-944) throw a GeminiError, whose message has no rate-limit marker, when
\* the response is not JSON or does not match the schema
EngineOutcomes == Outcomes \cup {"malformed"}

\* analyzeWithGemini lines 776-794, analyzeLegalDocument lines 993-1011: the
\* delay slept after the failed attempt
GeminiDelay(attempt, isRateLimit) ==
  IF isRateLimit THEN INITIAL_RETRY_DELAY * (2 ^ attempt) * 2
  ELSE INITIAL_RETRY_DELAY * (2 ^ (attempt - 1))

\* scrapeWebsite lines 183 and 204
ScraperDelay(attempt) == INITIAL_RETRY_DELAY * (2 ^ (attempt - 1))

svars == <<jobs, now, requests, faults, deliveries, cpc, creq, cres, wpc, wrun, wloc>>

\* analyzeWithGemini lines 737-747, analyzeLegalDocument lines 954-964
CallEngine(fn) ==
  /\ retry.pc = "idle"
  /\ retry' = [NoCall EXCEPT !.fn = fn, !.attempt = 1, !.pc = "loop"]
  /\ UNCHANGED <<svars, eval>>

\* scrapeWebsite lines 166-171 and 191-192: Firecrawl is tried first when its
\* API key is configured
CallScraper(hasKey) ==
  /\ retry.pc = "idle"
  /\ retry' = [NoCall EXCEPT !.fn = "scrapeWebsite", !.attempt = 1, !.pc = "loop",
                             !.provider = IF hasKey THEN "firecrawl" ELSE "jina"]
  /\ UNCHANGED <<svars, eval>>

\* analyzeWithGemini lines 747-809, analyzeLegalDocument lines 964-1025: one
\* pass of the loop
EngineAttempt(o) ==
  /\ retry.pc = "loop"
  /\ retry.fn \in EngineFunctions
  /\ retry' =
       LET called == [retry EXCEPT !.outcomes = Append(@, o)] IN
         IF o = "ok" THEN [called EXCEPT !.pc = "returned"]
         ELSE IF retry.attempt < MAX_RETRIES
              THEN [called EXCEPT !.delays = Append(@, GeminiDelay(retry.attempt, o = "rateLimit")),
                                  !.attempt = @ + 1]
              ELSE [called EXCEPT !.pc = "thrown"]
  /\ UNCHANGED <<svars, eval>>

\* A loop that sleeps after every failed attempt, the last one included
ScraperAttempt_AlwaysSleeps(o) ==
  /\ retry.pc = "loop"
  /\ retry.fn = "scrapeWebsite"
  /\ retry' =
       LET called == [retry EXCEPT !.outcomes = Append(@, o)] IN
         IF o = "ok" THEN [called EXCEPT !.pc = "returned"]
         ELSE LET slept == [called EXCEPT !.delays = Append(@, ScraperDelay(retry.attempt))] IN
                IF retry.attempt < MAX_RETRIES THEN [slept EXCEPT !.attempt = @ + 1]
                ELSE IF retry.provider = "firecrawl"
                     THEN [slept EXCEPT !.provider = "jina", !.attempt = 1]
                     ELSE [slept EXCEPT !.pc = "thrown"]
  /\ UNCHANGED <<svars, eval>>

\* scrapeWebsite lines 171-214: one pass of the loop of the provider; after the
\* last attempt with Firecrawl the loop of Jina Reader starts
ScraperAttempt(o) ==
  /\ retry.pc = "loop"
  /\ retry.fn = "scrapeWebsite"
  /\ retry' =
       LET called == [retry EXCEPT !.outcomes = Append(@, o)] IN
         IF o = "ok" THEN [called EXCEPT !.pc = "returned"]
         ELSE IF retry.attempt < MAX_RETRIES
              THEN [called EXCEPT !.delays = Append(@, ScraperDelay(retry.attempt)),
                                  !.attempt = @ + 1]
              ELSE IF retry.provider = "firecrawl"
                   THEN [called EXCEPT !.provider = "jina", !.attempt = 1]
                   ELSE [called EXCEPT !.pc = "thrown"]
  /\ UNCHANGED <<svars, eval>>

Next ==
  \/ Tick
  \/ StoreFault
  \/ \E c \in Clients : ClientSteps(c)
  \/ \E w \in Workers : WorkerSteps(w)

\* Every request served by every run: overlapping runs, store faults, the clock
Spec == Init /\ [][Next]_vars

\* The creation path: the requests of both clients interleaved, and one run of
\* the task at a time taking the jobs through their phases
NextCreate ==
  \/ \E c \in Clients : ClientSteps(c)
  \/ WorkerSteps("w1")

SpecCreate == Init /\ [][NextCreate]_vars

\* One request at a time and one run at a time, with store faults and runs
\* stopped at maxDuration: a later run finds the job where the earlier left it
NextSolo ==
  \/ ClientSteps("c1")
  \/ WorkerSteps("w1")
  \/ TaskAborted("w1")
  \/ StoreFault

SpecSolo == Init /\ [][NextSolo]_vars

\* The requests the security gate has to judge
NextGate ==
  \/ \E c \in Clients, r \in GateRequests : Request(c, r)
  \/ \E c \in Clients : ClientCall(c)
  \/ WorkerSteps("w1")

SpecGate == Init /\ [][NextGate]_vars

\* The creation path with the freshness window going by
NextWindow ==
  \/ Elapse
  \/ ClientSteps("c1")
  \/ WorkerSteps("w1")

SpecWindow == Init /\ [][NextWindow]_vars

\* A call of the engine or of the scraper, every outcome of every attempt
NextRetry ==
  \/ \E fn \in EngineFunctions : CallEngine(fn)
  \/ \E hasKey \in BOOLEAN : CallScraper(hasKey)
  \/ \E o \in EngineOutcomes : EngineAttempt(o)
  \/ \E o \in Outcomes : ScraperAttempt(o)

SpecRetry == Init /\ [][NextRetry]_vars

\* ================================================================ claims
PhaseIndex(phase) == CHOOSE i \in DOMAIN PhaseOrder : PhaseOrder[i] = phase

\* The client's call of createAnalysisJob has ended
CallEnded(c) == cpc[c] \in {"route", "trigger", "wait", "done", "failed"}

\* The step is a step of the run w
StepOf(w) == wpc'[w] # wpc[w]

\* C1: in every reachable state of the job store, no two job records carry the
\* same non-null idempotencyKey.
C1_UniqueIdempotencyKey ==
  \A i, j \in DOMAIN jobs :
    (i # j /\ jobs[i].idempotencyKey # NoKey) => jobs[i].idempotencyKey # jobs[j].idempotencyKey

\* C1 witness: two calls with the same key raced, one inserted the record and
\* the insert of the other was rejected.
C1_Witness ==
  \E c, d \in Clients :
    /\ c # d
    /\ cres[c].outcome = "DatabaseError"
    /\ cres[d].outcome = "ok" /\ ~cres[d].isCached
    /\ jobs[cres[d].jobId].idempotencyKey = ArgKey(c)

\* C2: a legal createAnalysisJob call whose key equals the key of an existing
\* job returns that job's id, whatever the job's phase, inserts no record and
\* leaves the table unchanged.
C2_IdempotentHitReturnsExisting ==
  [][\A c \in Clients :
       (cpc[c] = "idem" /\ cpc'[c] # "idem" /\ FindByIdempotencyKey(ArgKey(c)) # 0)
       => /\ cres'[c].outcome = "ok"
          /\ cres'[c].jobId = FindByIdempotencyKey(ArgKey(c))
          /\ jobs' = jobs]_vars

\* C2 witness: a second request was answered with the existing job of its key
\* while that job was FAILED, and no second record exists.
C2_Witness ==
  \E c \in Clients :
    /\ requests = 2 /\ Len(jobs) = 1
    /\ cpc[c] = "trigger" /\ cres[c].outcome = "ok" /\ cres[c].jobId = 1
    /\ jobs[1].currentPhase = "FAILED"
    /\ jobs[1].idempotencyKey = ArgKey(c)

\* C3: when two legal createAnalysisJob calls with the same key overlap, both
\* return successfully with the same job id and one record exists afterwards
\* (stated for calls in which no store operation was made to fail).
C3_ConcurrentCreatesBothSucceed ==
  \A c, d \in Clients :
    (/\ c # d
     /\ creq[c].analysisType = "legal" /\ creq[d].analysisType = "legal"
     /\ ArgKey(c) = ArgKey(d)
     /\ CallEnded(c) /\ CallEnded(d)
     /\ faults = 0)
    => /\ cres[c].outcome = "ok" /\ cres[d].outcome = "ok"
       /\ cres[c].jobId = cres[d].jobId
       /\ Cardinality({id \in DOMAIN jobs : jobs[id].idempotencyKey = ArgKey(c)}) = 1

\* C4: a legal createAnalysisJob call whose key matches no existing job creates
\* a new record and returns it with isCached = false, whatever jobs exist for
\* the same normalized URL: the legal job a legal call returns carries the
\* call's key, so a call that found no job of its key is not answered with an
\* older legal job of the same URL.
C4_KeyMissCreatesNewJob ==
  \A c \in Clients :
    (/\ creq[c].analysisType = "legal" /\ CallEnded(c) /\ cres[c].outcome = "ok"
     /\ jobs[cres[c].jobId].analysisType = "legal")
    => jobs[cres[c].jobId].idempotencyKey = ArgKey(c)

\* The fields C5 speaks of
TerminalFields(job) ==
  <<job.status, job.currentPhase, job.analysis, job.errorMessage, job.lastCompletedPhase>>

\* C5: once a job's stored state is terminal, no run of processAnalysisJob that
\* starts later changes its status, currentPhase, analysis, errorMessage or
\* lastCompletedPhase, store faults included.
C5_TerminalAbsorbing ==
  [][\A w \in Workers :
       (wrun[w].late /\ StepOf(w))
       => TerminalFields(jobs'[wrun[w].jobId]) = TerminalFields(jobs[wrun[w].jobId])]_vars

\* The success terminal state
Succeeded(job) ==
  /\ job.status = "COMPLETED"
  /\ job.analysisType = "legal" => job.currentPhase = "COMPLETE"

\* C6: in every reachable state a job's analysis is non-null if and only if the
\* job is in the success terminal state.
C6_ResultIffSucceeded ==
  \A id \in DOMAIN jobs : (jobs[id].analysis # NULL) <=> Succeeded(jobs[id])

\* C7: in every reachable state no job has both a non-null analysis and a
\* non-null errorMessage.
C7_ResultXorError ==
  \A id \in DOMAIN jobs : ~(jobs[id].analysis # NULL /\ jobs[id].errorMessage # NULL)

\* A change of currentPhase the state machine allows
AllowedPhaseStep(old, new) ==
  \/ /\ old # "FAILED" /\ new # "FAILED"
     /\ PhaseIndex(new) = PhaseIndex(old) + 1
  \/ /\ new = "FAILED"
     /\ old \notin {"COMPLETE", "FAILED"}

\* C8: every change of a legal job's stored currentPhase is a step to the
\* immediate successor or a step from a non-terminal phase to FAILED.
C8_PhaseForwardOnly ==
  [][\A id \in DOMAIN jobs :
       (jobs[id].analysisType = "legal" /\ jobs'[id].currentPhase # jobs[id].currentPhase)
       => AllowedPhaseStep(jobs[id].currentPhase, jobs'[id].currentPhase)]_vars

\* Every entry of the old timestamps is in the new ones with the same value
TimestampsKept(old, new) ==
  \A p \in DOMAIN old : p \in DOMAIN new /\ new[p] = old[p]

\* C9: across every store update of a legal job, phaseTimestamps never loses a
\* key and the timestamp of a phase never changes once set.
C9_TimestampsAppendOnly ==
  [][\A id \in DOMAIN jobs :
       TimestampsKept(jobs[id].phaseTimestamps, jobs'[id].phaseTimestamps)]_vars

\* C10: when processAnalysisJob is delivered more than once for a legal job and
\* the runs overlap, no step of such a run moves currentPhase backward,
\* overwrites a phaseTimestamps entry or overwrites a terminal state (stated
\* for behaviours in which no store operation was made to fail).
C10_OverlappingRunsSafe ==
  [][\A w \in Workers :
       (/\ wrun[w].overlapped /\ StepOf(w) /\ faults = 0
        /\ jobs[wrun[w].jobId].analysisType = "legal")
       => LET old == jobs[wrun[w].jobId]
              new == jobs'[wrun[w].jobId]
          IN /\ old.currentPhase = new.currentPhase
                \/ AllowedPhaseStep(old.currentPhase, new.currentPhase)
             /\ TimestampsKept(old.phaseTimestamps, new.phaseTimestamps)
             /\ Terminal(old) => (new.status = old.status
                                  /\ new.currentPhase = old.currentPhase)]_vars

\* The phase written is not one the job had passed when the run started at P
NotPassed(P, phase) ==
  \/ phase = "FAILED"
  \/ P # "FAILED" /\ PhaseIndex(phase) > PhaseIndex(P)

\* C11: a run of processAnalysisJob that starts, with no other run in flight,
\* on a legal job whose stored phase is P calls the fetcher only if P is
\* SCAN_CREATED or TERMS_DISCOVERED, and every update it writes sets a phase
\* after P (or FAILED): no transition before P is executed again.
C11_ResumeSkipsPassedPhases ==
  [][\A w \in Workers :
       (wpc[w] # "idle" /\ StepOf(w) /\ wrun[w].startPhase # NULL)
       => /\ wpc[w] = "fetch" => wrun[w].startPhase \in {"SCAN_CREATED", "TERMS_DISCOVERED"}
          /\ jobs'[wrun[w].jobId] # jobs[wrun[w].jobId]
             => NotPassed(wrun[w].startPhase, jobs'[wrun[w].jobId].currentPhase)]_vars

\* C11 witness: a run that started on a job stored at DOCUMENT_FETCHED has taken
\* it to SUMMARIZING.
C11_Witness ==
  \E w \in Workers :
    /\ wrun[w].startPhase = "DOCUMENT_FETCHED"
    /\ wpc[w] = "toComplete"
    /\ jobs[wrun[w].jobId].currentPhase = "SUMMARIZING"

\* The errors of the collaborators: the fetcher's and the engine's
CollaboratorErrors == {"ScrapingError", "GeminiError"}

\* C12: when the fetcher or the engine has failed in a run and the store
\* answers, the run's failure update leaves the job FAILED (currentPhase FAILED
\* for a legal job) with the error as errorMessage and with no analysis stored
\* (stated for behaviours in which no store operation was made to fail).
C12_FailureRecorded ==
  [][\A w \in Workers :
       (/\ wpc[w] = "failWrite" /\ wpc'[w] = "idle"
        /\ faults = 0 /\ faults' = 0
        /\ wloc[w].error \in CollaboratorErrors)
       => LET job == jobs'[wrun[w].jobId] IN
            /\ job.status = "FAILED"
            /\ job.analysisType = "legal" => job.currentPhase = "FAILED"
            /\ job.errorMessage = wloc[w].error
            /\ job.analysis = NULL]_vars

\* C13: the failure update of a legal job sets lastCompletedPhase to the phase
\* the job had before the failing transition began: TERMS_DISCOVERED when the
\* fetch failed, NORMALIZED when the engine failed, and never FAILED.
C13_LastCompletedPhase ==
  [][\A w \in Workers :
       (/\ wpc[w] = "failWrite" /\ wpc'[w] = "idle"
        /\ wloc[w].existingType = "legal"
        /\ wloc[w].error \in CollaboratorErrors)
       => LET job == jobs'[wrun[w].jobId] IN
            /\ wloc[w].error = "ScrapingError" => job.lastCompletedPhase = "TERMS_DISCOVERED"
            /\ wloc[w].error = "GeminiError" => job.lastCompletedPhase = "NORMALIZED"
            /\ job.lastCompletedPhase # "FAILED"]_vars

\* C14: a run of processAnalysisJob ends with the task retried only when a
\* store operation of its catch block has thrown: a failure of the fetcher or
\* of the engine ends the run normally, with no retry of the task scheduled.
C14_CollaboratorFailureContained ==
  [][\A w \in Workers :
       (wpc[w] # "idle" /\ wpc'[w] = "idle" /\ deliveries' # deliveries)
       => /\ wpc[w] \in {"catch", "failWrite"}
          /\ faults' = faults + 1]_vars

\* C14 witness: the engine has failed in the first run of a job, the run has
\* ended with the failure recorded, and no further run is scheduled.
C14_Witness ==
  /\ Len(jobs) = 1
  /\ jobs[1].status = "FAILED" /\ jobs[1].errorMessage = "GeminiError"
  /\ wpc["w1"] = "idle"
  /\ faults = 0
  /\ \A a \in 1..TaskMaxAttempts : deliveries[1][a] = 0

\* Every URL stored in a job record passes validateUrlSecurity
StoredUrlsSafe ==
  \A id \in DOMAIN jobs :
    /\ validateUrlSecurity(jobs[id].url)
    /\ \A i \in DOMAIN jobs[id].additionalUrls : validateUrlSecurity(jobs[id].additionalUrls[i])

\* The request the client's handler is serving has a URL the gate rejects
Rejected(c) == creq[c] # NoRequest /\ ~GatePasses(creq[c])

CompletedFor(c, id) ==
  /\ jobs[id].normalizedUrl = ArgNormalized(c)
  /\ jobs[id].status = "COMPLETED"

\* A job completed for the URL within the freshness window
FreshFor(c) ==
  \E id \in DOMAIN jobs : CompletedFor(c, id) /\ jobs[id].completedAt >= now - SevenDays

\* C16: for every analysis kind, a lookup of createAnalysisJob made while a job
\* completed within the last 7 days exists for the normalized URL leads to the
\* return of a completed job with isCached = true and to no insert; a call
\* that ends when the jobs completed for the URL are all older than 7 days has
\* inserted a new record and returns it.
C16_CacheWindow ==
  [][\A c \in Clients :
       /\ (cpc[c] \in {"idem", "cache", "verifyCached"} /\ cpc'[c] # cpc[c] /\ FreshFor(c))
          => /\ cpc'[c] # "insert"
             /\ jobs' = jobs
             /\ cpc'[c] \in {"route", "trigger"}
                => (cres'[c].isCached /\ cres'[c].status = "COMPLETED")
       /\ (/\ cpc[c] \in {"idem", "cache", "verifyCached", "insert"}
           /\ cpc'[c] \in {"route", "trigger"}
           /\ ~FreshFor(c)
           /\ \E id \in DOMAIN jobs : CompletedFor(c, id))
          => /\ Len(jobs') = Len(jobs) + 1
             /\ cres'[c].jobId = Len(jobs')
             /\ ~cres'[c].isCached]_vars

\* The positions of the handler inside createAnalysisJob
CreatePositions == {"idem", "cache", "verifyCached", "insert"}

\* The step leaves the job table as it is or inserts one PENDING record that
\* has no scraped content and no analysis
ReadOrInsert ==
  \/ jobs' = jobs
  \/ /\ Len(jobs') = Len(jobs) + 1
     /\ SubSeq(jobs', 1, Len(jobs)) = jobs
     /\ jobs'[Len(jobs')].status = "PENDING"
     /\ ~jobs'[Len(jobs')].scraped
     /\ jobs'[Len(jobs')].analysis = NULL

\* A call of createAnalysisJob, and the answer to a legal request, can take
\* their next step whatever the runs of the task are doing
NeverWaits ==
  \A c \in Clients :
    /\ cpc[c] = "idem" => ENABLED CreateIdempotency(c)
    /\ cpc[c] = "cache" => ENABLED CreateCacheLookup(c)
    /\ cpc[c] = "verifyCached" => ENABLED CreateVerifyCached(c)
    /\ cpc[c] = "insert" => ENABLED CreateInsert(c)
    /\ (cpc[c] = "trigger" /\ creq[c].analysisType = "legal") => ENABLED RouteTrigger(c)

\* C17: every step of createAnalysisJob only reads the job table or inserts the
\* new PENDING record: it starts no run, calls neither the fetcher nor the
\* engine, and is never held up by the progress of a run; a legal request is
\* answered 202 by the step that triggers the task, with the job untouched.
C17_CreateOnlyTouchesStore ==
  /\ []NeverWaits
  /\ [][\A c \in Clients :
         /\ (cpc[c] \in CreatePositions /\ cpc'[c] # cpc[c])
            => (ReadOrInsert /\ wvars' = wvars /\ deliveries' = deliveries /\ retry' = retry
                /\ eval' = eval)
         /\ (cpc[c] = "trigger" /\ cpc'[c] # cpc[c] /\ creq[c].analysisType = "legal")
            => (cpc'[c] = "done" /\ cres'[c].http = 202 /\ jobs' = jobs)]_vars

\* C17 witness: a legal request has been answered 202 while its job is still
\* in SCAN_CREATED and the run of the task has not started.
C17_Witness ==
  \E c \in Clients :
    /\ cpc[c] = "done" /\ cres[c].http = 202 /\ creq[c].analysisType = "legal"
    /\ jobs[cres[c].jobId].currentPhase = "SCAN_CREATED"
    /\ deliveries[cres[c].jobId][1] > 0

\* C18: at any time at most one run of processAnalysisJob is in flight for a
\* job id (stated for behaviours in which no store operation was made to fail).
C18_OneRunPerJob ==
  \A w, v \in Workers :
    (faults = 0 /\ w # v /\ wrun[w].jobId # 0) => wrun[w].jobId # wrun[v].jobId

\* The first two attempts of the call failed and the third returned
FailedTwiceThenOk ==
  /\ Len(retry.outcomes) = 3
  /\ retry.outcomes[1] # "ok" /\ retry.outcomes[2] # "ok" /\ retry.outcomes[3] = "ok"

\* C19: a call whose operation fails on attempts 1 and 2 and succeeds on
\* attempt 3 returns the value after exactly 3 invocations and 2 sleeps, and
\* the delay before attempt 3 is strictly greater than the delay before
\* attempt 2, whatever the kinds of the two failures.
C19_ThirdAttemptSucceeds ==
  FailedTwiceThenOk
  => /\ retry.pc = "returned"
     /\ retry.attempt = 3
     /\ Len(retry.delays) = 2
     /\ retry.delays[2] > retry.delays[1]

\* C20: in the engine's calls the delay slept after the failed attempt k is
\* INITIAL_RETRY_DELAY * 2^(k-1) when the failure is not a rate-limit signal
\* and exactly twice that when it is.
C20_BackoffDelays ==
  retry.fn \in EngineFunctions
  => \A k \in DOMAIN retry.delays :
       retry.delays[k] =
         IF retry.outcomes[k] = "rateLimit"
         THEN 2 * INITIAL_RETRY_DELAY * (2 ^ (k - 1))
         ELSE INITIAL_RETRY_DELAY * (2 ^ (k - 1))

\* C21: a failure of structure is not retried: once an attempt of a call of the
\* engine has ended with a response that does not parse or does not validate,
\* the operation is not invoked again, so a malformed response is always the
\* last attempt of its call.
C21_MalformedNotRetried ==
  retry.fn \in EngineFunctions
  => \A k \in DOMAIN retry.outcomes :
       retry.outcomes[k] = "malformed" => k = Len(retry.outcomes)

\* ------------------------------------- the merge of per-document analyses
\* number of documents analysed by one call of analyzeMultipleLegalDocuments
MaxDocs == 2
\* number of risks in the engine's responses for the documents of one call
MaxRisks == 4

\* types/index.ts line 71; 'medium' counts like 'low' in the merge
Severities == {"high", "low"}

\* A risk of the engine's response: the id it declares ("" when it declares
\* none) and its severity
RawRisks == [id : {"", "arbitration"}, severity : Severities]

SeqsUpTo(S, n) == UNION {[1..k -> S] : k \in 0..n}

\* The risks arrays the engine answers with for one document
Responses == SeqsUpTo(RawRisks, MaxRisks)

\* parseLegalAnalysisResponse lines 929-933: a risk with no id gets
\* `risk-${index + 1}`, index counted from 0 within its document
parseLegalAnalysisResponse(risks) ==
  [i \in DOMAIN risks |->
     [risks[i] EXCEPT !.id = IF @ = "" THEN "risk-" \o ToString(i) ELSE @]]

\* The map entry of an id already present is replaced by the later risk
AddRisks_LastWins(riskMap, risks) ==
  LET set(m, r) ==
        IF \E k \in DOMAIN m : m[k].id = r.id
        THEN [k \in DOMAIN m |-> IF m[k].id = r.id THEN r ELSE m[k]]
        ELSE Append(m, r)
      F[n \in 0..Len(risks)] == IF n = 0 THEN riskMap ELSE set(F[n - 1], risks[n])
  IN F[Len(risks)]

\* analyzeMultipleLegalDocuments lines 1090-1094, the inner loop: riskMap is
\* the Map's values in insertion order; a risk whose id is present is skipped
AddRisks(riskMap, risks) ==
  LET set(m, r) ==
        IF \E k \in DOMAIN m : m[k].id = r.id THEN m ELSE Append(m, r)
      F[n \in 0..Len(risks)] == IF n = 0 THEN riskMap ELSE set(F[n - 1], risks[n])
  IN F[Len(risks)]

\* analyzeMultipleLegalDocuments lines 1088-1097: Array.from(riskMap.values())
MergeRisks(analyses) ==
  LET F[n \in 0..Len(analyses)] ==
        IF n = 0 THEN <<>> ELSE AddRisks(F[n - 1], analyses[n])
  IN F[Len(analyses)]

\* The assessment is high_concern only above three high-severity risks
OverallAssessment_Above3(highSeverityCount) ==
  IF highSeverityCount > 3 THEN "high_concern"
  ELSE IF highSeverityCount >= 1 THEN "moderate_concern"
  ELSE "low_concern"

\* analyzeMultipleLegalDocuments lines 1102-1107
OverallAssessment(highSeverityCount) ==
  IF highSeverityCount >= 3 THEN "high_concern"
  ELSE IF highSeverityCount >= 1 THEN "moderate_concern"
  ELSE "low_concern"

\* analyzeMultipleLegalDocuments lines 1088-1107 and 1147-1168: the risks and
\* the riskSummary of the combined analysis
CombinedAnalysis(analyses) ==
  LET allRisks == MergeRisks(analyses)
      totalRisks == Len(allRisks)
      highSeverityCount == Cardinality({k \in DOMAIN allRisks : allRisks[k].severity = "high"})
  IN [risks |-> allRisks,
      riskSummary |-> [totalRisks |-> totalRisks,
                       highSeverityCount |-> highSeverityCount,
                       overallAssessment |-> OverallAssessment(highSeverityCount)]]

\* The risks of the per-document analyses in document order, then in the
\* order within the document
FlatRisks(analyses) ==
  LET F[n \in 0..Len(analyses)] == IF n = 0 THEN <<>> ELSE F[n - 1] \o analyses[n]
  IN F[Len(analyses)]

\* analyzeMultipleLegalDocuments lines 1071-1080: analyzeLegalDocumentFromUrl
\* answers for the next URL of urls, its response parsed by
\* parseLegalAnalysisResponse
AnalyzeDocument(risks) ==
  LET analyses == IF eval.pc = "idle" THEN <<>> ELSE eval.arg IN
    /\ \/ eval.pc = "idle"
       \/ eval.pc = "analysing" /\ eval.fn = "analyzeMultipleLegalDocuments"
    /\ Len(analyses) < MaxDocs
    /\ Len(FlatRisks(analyses)) + Len(risks) <= MaxRisks
    /\ eval' = [fn |-> "analyzeMultipleLegalDocuments",
                arg |-> Append(analyses, parseLegalAnalysisResponse(risks)),
                out |-> NULL, pc |-> "analysing"]
    /\ UNCHANGED <<svars, retry>>

\* analyzeMultipleLegalDocuments lines 1082-1184: every URL of urls has its
\* analysis, and the analyses are combined
CombineAnalyses ==
  /\ eval.pc = "analysing"
  /\ eval.fn = "analyzeMultipleLegalDocuments"
  /\ eval' = [eval EXCEPT !.out = CombinedAnalysis(eval.arg), !.pc = "returned"]
  /\ UNCHANGED <<svars, retry>>

\* A call of analyzeMultipleLegalDocuments for every list of responses
NextMerge ==
  \/ \E risks \in Responses : AnalyzeDocument(risks)
  \/ CombineAnalyses

SpecMerge == Init /\ [][NextMerge]_vars

\* The positions of the first occurrence of each id
FirstOccurrences(flat) ==
  {k \in DOMAIN flat : \A j \in 1..(k - 1) : flat[j].id # flat[k].id}

Merged == eval.fn = "analyzeMultipleLegalDocuments" /\ eval.pc = "returned"

\* C22: the merged analysis is high_concern when the risks left after
\* deduplication by id hold 3 or more of high severity, moderate_concern when
\* they hold 1 or 2, low_concern when they hold none; highSeverityCount and
\* totalRisks are the counts over the deduplicated risks.
C22_MergedAssessment ==
  Merged =>
    LET flat == FlatRisks(eval.arg)
        first == FirstOccurrences(flat)
        high == Cardinality({k \in first : flat[k].severity = "high"})
        summary == eval.out.riskSummary
    IN /\ summary.totalRisks = Cardinality(first)
       /\ summary.highSeverityCount = high
       /\ (high >= 3 => summary.overallAssessment = "high_concern")
       /\ (high \in {1, 2} => summary.overallAssessment = "moderate_concern")
       /\ (high = 0 => summary.overallAssessment = "low_concern")

\* Two documents whose risks, a duplicate dropped, leave three of high severity
C22_Witness ==
  /\ Merged
  /\ Len(eval.arg) >= 2
  /\ eval.out.riskSummary.highSeverityCount = 3
  /\ eval.out.riskSummary.totalRisks < Len(FlatRisks(eval.arg))
  /\ eval.out.riskSummary.overallAssessment = "high_concern"

\* C23: the merged risk list holds one risk for each id of the per-document
\* analyses, the first occurrence of the id in document order then in the
\* order within the document, and the first occurrences keep their order.
C23_FirstOccurrenceWins ==
  Merged =>
    LET flat == FlatRisks(eval.arg)
        first == FirstOccurrences(flat)
    IN /\ Len(eval.out.risks) = Cardinality(first)
       /\ \A k \in first :
            eval.out.risks[Cardinality({j \in first : j <= k})] = flat[k]

\* A later document repeats an id with another severity, and it is dropped
C23_Witness ==
  /\ Merged
  /\ Len(eval.out.risks) >= 2
  /\ \E d, e \in DOMAIN eval.arg : \E i \in DOMAIN eval.arg[d], j \in DOMAIN eval.arg[e] :
       /\ d < e
       /\ eval.arg[d][i].id = eval.arg[e][j].id
       /\ eval.arg[d][i].severity # eval.arg[e][j].severity

\* ------------------------------------------------- the URLs as strings
\* number of slashes a pathname ends with
MaxSlashes == 2
\* number of parameters of a query string
MaxParams == 2

\* A URL string is written by its parts: the scheme, the host as typed, the
\* pathname as the sequence of its segments and slashes, the query as the
\* sequence of its name=value pairs, the fragment ("" when there is no '#').
Hostnames == {"a.com", "A.com"}

\* String.prototype.toLowerCase on the hosts
toLowerCase(s) == IF s = "A.com" THEN "a.com" ELSE s

Slashes(k) == [i \in 1..k |-> "/"]

Pathnames ==
  {Slashes(k) : k \in 0..MaxSlashes}
    \cup {<<"/", "terms">> \o Slashes(k) : k \in 0..MaxSlashes}

Params == [name : {"a", "b"}, value : {"1", "2"}]

UrlStrings ==
  [protocol : {"https:"}, hostname : Hostnames, pathname : Pathnames,
   search : SeqsUpTo(Params, MaxParams), hash : {"", "top"}]

\* A string new URL() throws on
NotAUrl ==
  [protocol |-> "", hostname |-> "", pathname |-> <<"terms">>, search |-> <<>>, hash |-> ""]

\* new URL(url): the parser lowercases the host and gives an empty path of
\* an https URL the pathname "/"
ParseUrl(url) ==
  [url EXCEPT !.hostname = toLowerCase(@),
              !.pathname = IF @ = <<>> THEN <<"/">> ELSE @]

\* The UTF-16 code unit the name starts with
CodeUnit(name) == IF name = "a" THEN 97 ELSE 98

\* URLSearchParams.sort(): a stable sort by name
RECURSIVE SortParams(_)
SortParams(params) ==
  IF params = <<>> THEN <<>>
  ELSE LET last == params[Len(params)]
           front == SortParams(SubSeq(params, 1, Len(params) - 1))
           keep == {k \in DOMAIN front : CodeUnit(front[k].name) <= CodeUnit(last.name)}
           n == Cardinality(keep)
       IN SubSeq(front, 1, n) \o <<last>> \o SubSeq(front, n + 1, Len(front))

\* pathname.replace(/\/$/, '') || '/': one slash at the end is removed
StripSlash(pathname) ==
  LET stripped == IF pathname # <<>> /\ pathname[Len(pathname)] = "/"
                  THEN SubSeq(pathname, 1, Len(pathname) - 1)
                  ELSE pathname
  IN IF stripped = <<>> THEN <<"/">> ELSE stripped

\* utils/hash.ts normalizeUrl lines 157-169, on a URL string
NormalizedHref(url) ==
  IF url.protocol = "" THEN url
  ELSE LET urlObj == ParseUrl(url)
       IN [urlObj EXCEPT !.pathname = StripSlash(@),
                         !.hostname = toLowerCase(@),
                         !.hash = "",
                         !.search = SortParams(@)]

\* normalizeUrl is called on a string
CallNormalizeUrl(url) ==
  /\ eval.pc = "idle"
  /\ eval' = [fn |-> "normalizeUrl", arg |-> url, out |-> NormalizedHref(url), pc |-> "returned"]
  /\ UNCHANGED <<svars, retry>>

\* normalizeUrl is called on the string it returned
CallNormalizeUrlAgain ==
  /\ eval.pc = "returned"
  /\ eval.fn = "normalizeUrl"
  /\ eval' = [eval EXCEPT !.arg = eval.out, !.out = NormalizedHref(eval.out), !.pc = "again"]
  /\ UNCHANGED <<svars, retry>>

NextNormalize ==
  \/ \E url \in UrlStrings \cup {NotAUrl} : CallNormalizeUrl(url)
  \/ CallNormalizeUrlAgain

SpecNormalize == Init /\ [][NextNormalize]_vars

\* The queries hold the same parameters, each as many times
SameParams(p, q) ==
  /\ Len(p) = Len(q)
  /\ \A x \in Params :
       Cardinality({k \in DOMAIN p : p[k] = x}) = Cardinality({k \in DOMAIN q : q[k] = x})

\* The pathname without the slash it ends with, if it ends with one
WithoutTrailingSlash(pathname) ==
  IF Len(pathname) > 1 /\ pathname[Len(pathname)] = "/"
  THEN SubSeq(pathname, 1, Len(pathname) - 1) ELSE pathname

\* The two URLs differ at most in a trailing slash of the path, the fragment,
\* the order of the query parameters and the letter case of the host
Variants(u, v) ==
  /\ u.protocol = v.protocol
  /\ toLowerCase(u.hostname) = toLowerCase(v.hostname)
  /\ \/ u.pathname = v.pathname
     \/ WithoutTrailingSlash(ParseUrl(u).pathname) = ParseUrl(v).pathname
     \/ WithoutTrailingSlash(ParseUrl(v).pathname) = ParseUrl(u).pathname
  /\ SameParams(u.search, v.search)

\* C28: normalizeUrl applied to its own result returns that result, and two
\* URLs that differ only in a trailing slash of the path, the fragment, the
\* order of the query parameters or the letter case of the host are mapped to
\* the same string.
C28_NormalizeUrl ==
  /\ (eval.fn = "normalizeUrl" /\ eval.pc = "again") => eval.out = eval.arg
  /\ (eval.fn = "normalizeUrl" /\ eval.pc = "returned")
       => \A v \in UrlStrings : Variants(eval.arg, v) => NormalizedHref(v) = eval.out

\* ------------------------------------------------- the security gate
\* The schemes of the URLs judged
Protocols == {"http:", "https:", "ftp:", "file:"}

\* The host of a URL after new URL(): a dotted quad, given by its four
\* numbers (labels empty), or a name, given by its labels (quad empty). The
\* numbers are those next to the limits of the ranges the gate knows.
Ipv4Hosts ==
  { [quad |-> <<a, b, c, d>>, labels |-> <<>>] :
      a \in {0, 9, 10, 11, 126, 127, 128, 169, 172, 192, 203},
      b \in {0, 15, 16, 31, 32, 168, 253, 254},
      c \in {0, 169},
      d \in {0, 1, 254} }

NamedHosts ==
  { [quad |-> <<>>, labels |-> l] :
      l \in { <<"localhost">>, <<"example", "com">>, <<"metadata", "google", "internal">>,
              <<"printer", "local">>, <<"wiki", "corp">>, <<"nas", "lan">>,
              <<"127", "example", "com">>, <<"localhost", "example", "com">> } }

GateUrls == [protocol : Protocols, hostname : Ipv4Hosts \cup NamedHosts]

\* hostname.match(ipv4Regex), lines 80-81
IsDottedQuad(hostname) == hostname.quad # <<>>

\* lines 41-48
IsLoopback(hostname) ==
  \/ hostname.labels = <<"localhost">>
  \/ hostname.quad = <<127, 0, 0, 1>>
  \/ hostname.quad = <<0, 0, 0, 0>>
  \/ hostname.quad # <<>> /\ hostname.quad[1] = 127
  \/ Len(hostname.labels) > 1 /\ hostname.labels[1] = "127"

\* line 56
IsMetadata(hostname) ==
  \/ hostname.quad = <<169, 254, 169, 254>>
  \/ hostname.labels = <<"metadata", "google", "internal">>

\* lines 64-71: hostname.includes of '.local', '.internal', '.corp', '.lan',
\* 'localhost'
IsInternalName(hostname) ==
  \/ \E i \in 2..Len(hostname.labels) :
       hostname.labels[i] \in {"local", "internal", "corp", "lan"}
  \/ \E i \in 1..Len(hostname.labels) : hostname.labels[i] = "localhost"

\* The range 172.16.0.0/12 taken to end at 172.30
InPrivate172_To30(a, b) == a = 172 /\ b >= 16 /\ b <= 30

\* line 111
InPrivate172(a, b) == a = 172 /\ b >= 16 /\ b <= 31

\* utils/hash.ts validateUrlSecurity lines 26-142, on a URL string that parses
UrlSecurity(url) ==
  LET hostname == url.hostname
      a == hostname.quad[1]
      b == hostname.quad[2]
  IN
  IF url.protocol \notin {"http:", "https:"}
  THEN [valid |-> FALSE,
        reason |-> "Invalid protocol: " \o url.protocol \o ". Only http and https are allowed."]
  ELSE IF IsLoopback(hostname)
  THEN [valid |-> FALSE, reason |-> "Localhost and loopback addresses are not allowed"]
  ELSE IF IsMetadata(hostname)
  THEN [valid |-> FALSE, reason |-> "Cloud metadata endpoints are not allowed"]
  ELSE IF IsInternalName(hostname)
  THEN [valid |-> FALSE, reason |-> "Internal hostnames are not allowed"]
  ELSE IF ~IsDottedQuad(hostname)
  THEN [valid |-> TRUE, reason |-> ""]
  ELSE IF \E i \in 1..4 : hostname.quad[i] > 255
  THEN [valid |-> FALSE, reason |-> "Invalid IP address format"]
  ELSE IF a = 10
  THEN [valid |-> FALSE, reason |-> "Private IP range (10.0.0.0/8) is not allowed"]
  ELSE IF InPrivate172(a, b)
  THEN [valid |-> FALSE, reason |-> "Private IP range (172.16.0.0/12) is not allowed"]
  ELSE IF a = 192 /\ b = 168
  THEN [valid |-> FALSE, reason |-> "Private IP range (192.168.0.0/16) is not allowed"]
  ELSE IF a = 169 /\ b = 254
  THEN [valid |-> FALSE, reason |-> "Link-local IP range (169.254.0.0/16) is not allowed"]
  ELSE [valid |-> TRUE, reason |-> ""]

\* validateUrlSecurity is called on a URL
CallValidateUrlSecurity(url) ==
  /\ eval.pc = "idle"
  /\ eval' = [fn |-> "validateUrlSecurity", arg |-> url, out |-> UrlSecurity(url),
              pc |-> "returned"]
  /\ UNCHANGED <<svars, retry>>

\* assertUrlSecurity lines 147-152: the result is turned into a SecurityError
\* or into a normal return
AssertUrlSecurity ==
  /\ eval.pc = "returned"
  /\ eval.fn = "validateUrlSecurity"
  /\ eval' = [eval EXCEPT !.pc = IF eval.out.valid THEN "passed" ELSE "SecurityError"]
  /\ UNCHANGED <<svars, retry>>

NextSecurity ==
  \/ \E url \in GateUrls : CallValidateUrlSecurity(url)
  \/ AssertUrlSecurity

SpecSecurity == Init /\ [][NextSecurity]_vars

\* The address of a dotted quad is in the block base/prefix, for a prefix of
\* 16 bits at most: the first 16 bits of the two addresses agree on the prefix
InBlock(hostname, base, prefix) ==
  LET High16(h) == h[1] * 256 + h[2]
  IN High16(hostname) \div (2 ^ (16 - prefix)) = High16(base) \div (2 ^ (16 - prefix))

\* The rule a host breaks, by the blocks and names of the claim
BrokenRules(url) ==
  LET h == url.hostname.quad
      quad == h # <<>>
  IN (IF url.protocol \notin {"http:", "https:"} THEN {"protocol"} ELSE {})
     \cup (IF url.hostname.labels = <<"localhost">> \/ (quad /\ InBlock(h, <<127, 0, 0, 0>>, 8))
           THEN {"loopback"} ELSE {})
     \cup (IF quad /\ InBlock(h, <<169, 254, 0, 0>>, 16) THEN {"link-local"} ELSE {})
     \cup (IF h = <<169, 254, 169, 254>> THEN {"metadata"} ELSE {})
     \cup (IF quad /\ InBlock(h, <<10, 0, 0, 0>>, 8) THEN {"10/8"} ELSE {})
     \cup (IF quad /\ InBlock(h, <<172, 16, 0, 0>>, 12) THEN {"172.16/12"} ELSE {})
     \cup (IF quad /\ InBlock(h, <<192, 168, 0, 0>>, 16) THEN {"192.168/16"} ELSE {})

\* The rule a reason names
RuleNamed(url, reason) ==
  CASE reason = "Invalid protocol: " \o url.protocol \o ". Only http and https are allowed."
         -> {"protocol"}
    [] reason = "Localhost and loopback addresses are not allowed" -> {"loopback"}
    [] reason = "Cloud metadata endpoints are not allowed" -> {"metadata"}
    [] reason = "Private IP range (10.0.0.0/8) is not allowed" -> {"10/8"}
    [] reason = "Private IP range (172.16.0.0/12) is not allowed" -> {"172.16/12"}
    [] reason = "Private IP range (192.168.0.0/16) is not allowed" -> {"192.168/16"}
    [] reason = "Link-local IP range (169.254.0.0/16) is not allowed" -> {"link-local"}
    [] OTHER -> {}

\* C29: validateUrlSecurity answers valid = false, with a reason that names a
\* rule the URL breaks, for every URL whose scheme is not http or https and
\* for every host that is localhost or in 127.0.0.0/8, 169.254.0.0/16 (the
\* metadata address 169.254.169.254 included), 10.0.0.0/8, 172.16.0.0/12 or
\* 192.168.0.0/16; it answers valid = true for a dotted quad only when the
\* address is in none of these blocks.
C29_DisallowedHostsRejected ==
  (eval.fn = "validateUrlSecurity" /\ eval.pc # "idle") =>
    /\ BrokenRules(eval.arg) # {} =>
         /\ eval.out.valid = FALSE
         /\ eval.out.reason # ""
         /\ RuleNamed(eval.arg, eval.out.reason) \subseteq BrokenRules(eval.arg)
         /\ RuleNamed(eval.arg, eval.out.reason) # {}
    /\ (eval.out.valid /\ eval.arg.hostname.quad # <<>>)
         => BrokenRules(eval.arg) = {}

\* The last address of 172.16.0.0/12 is rejected, by the reason of its block
C29_Witness ==
  /\ eval.fn = "validateUrlSecurity"
  /\ eval.pc = "SecurityError"
  /\ eval.arg.protocol = "https:"
  /\ eval.arg.hostname.quad = <<172, 31, 169, 254>>
  /\ eval.out.reason = "Private IP range (172.16.0.0/12) is not allowed"

\* ----------------------------------------------------- the list of jobs
\* largest limit of a list request (listAnalysesSchema allows 1..100)
MaxLimit == 2

\* GET /api/analyze lines 334-350: the where clause; a url or a cursor left
\* out is 0, a status left out is NULL
ListMatch(id, url, status, cursor) ==
  /\ url # 0 => jobs[id].url = url
  /\ status # NULL => jobs[id].status = status
  /\ cursor # 0 => id < cursor

\* prisma.analysisJob.findMany lines 353-365: the rows of the where clause
\* ordered by createdAt descending, rows of equal createdAt in any order, cut
\* to take rows. Ids compare in the order of creation.
FindMany(url, status, cursor, take) ==
  LET hits == {id \in DOMAIN jobs : ListMatch(id, url, status, cursor)}
      n == Cardinality(hits)
      ordered == {s \in [1..n -> hits] :
                    /\ \A i, j \in 1..n : i < j => s[i] # s[j]
                    /\ \A i, j \in 1..n : i < j => jobs[s[i]].createdAt >= jobs[s[j]].createdAt}
  IN {SubSeq(s, 1, IF n < take THEN n ELSE take) : s \in ordered}

\* GET /api/analyze lines 353-378: one page, from the rows findMany returned
ListPage(q, items, listed) ==
  LET hasNextPage == Len(items) > q.limit
      resultItems == IF hasNextPage THEN SubSeq(items, 1, q.limit) ELSE items
      nextCursor == IF hasNextPage THEN resultItems[Len(resultItems)] ELSE 0
  IN [fn |-> "list", arg |-> q,
      out |-> [items |-> resultItems, nextCursor |-> nextCursor, listed |-> listed \o resultItems],
      pc |-> IF nextCursor = 0 THEN "listed" ELSE "paging"]

\* GET /api/analyze with no cursor: the first page
ListFirstPage(url, status, limit) ==
  /\ eval.pc = "idle"
  /\ \E items \in FindMany(url, status, 0, limit + 1) :
       eval' = ListPage([url |-> url, status |-> status, limit |-> limit], items, <<>>)
  /\ UNCHANGED <<svars, retry>>

\* GET /api/analyze with the nextCursor of the page before
ListNextPage ==
  /\ eval.pc = "paging"
  /\ eval.fn = "list"
  /\ \E items \in FindMany(eval.arg.url, eval.arg.status, eval.out.nextCursor, eval.arg.limit + 1) :
       eval' = ListPage(eval.arg, items, eval.out.listed)
  /\ UNCHANGED <<svars, retry>>

\* Jobs are created and processed, then the list is traversed with the store
\* at rest
NextList ==
  \/ eval.pc = "idle" /\ Tick
  \/ eval.pc = "idle" /\ ClientSteps("c1")
  \/ eval.pc = "idle" /\ WorkerSteps("w1")
  \/ \E url \in {0, 1}, status \in {NULL, "PENDING", "COMPLETED"}, limit \in 1..MaxLimit :
       ListFirstPage(url, status, limit)
  \/ ListNextPage

SpecList == Init /\ [][NextList]_vars

\* C30: with a fixed filter and the store at rest, the first page and the
\* pages reached by following nextCursor until it is null return every
\* matching job exactly once, in descending order of creation time; a page
\* holds at most limit items, and nextCursor is null exactly when no matching
\* job remains to be returned.
C30_TraversalComplete ==
  eval.fn = "list" =>
    LET matching == {id \in DOMAIN jobs : ListMatch(id, eval.arg.url, eval.arg.status, 0)}
        listed == eval.out.listed
    IN /\ Len(eval.out.items) <= eval.arg.limit
       /\ \A i, j \in DOMAIN listed :
            i < j => listed[i] # listed[j] /\ jobs[listed[i]].createdAt >= jobs[listed[j]].createdAt
       /\ {listed[i] : i \in DOMAIN listed} \subseteq matching
       /\ (eval.out.nextCursor = 0) = ({listed[i] : i \in DOMAIN listed} = matching)

\* ------------------------------------------------- the status of a job
\* GET /api/analyze/:jobId lines 266-294: the response data; a field left out
\* or undefined is NULL
StatusResponse(job) ==
  [status |-> job.status,
   analysis |-> job.analysis,
   current_phase |-> job.currentPhase,
   failure_reason |->
     IF job.currentPhase # NULL /\ job.status = "FAILED" THEN job.errorMessage ELSE NULL]

\* GET /api/analyze/:jobId for a job of the table
GetStatus(id) ==
  /\ eval.pc = "idle"
  /\ id \in DOMAIN jobs
  /\ eval' = [fn |-> "getStatus", arg |-> id, out |-> StatusResponse(jobs[id]), pc |-> "returned"]
  /\ UNCHANGED <<svars, retry>>

\* Jobs are created and processed; the status of one of them is asked for
NextStatus ==
  \/ eval.pc = "idle" /\ ClientSteps("c1")
  \/ eval.pc = "idle" /\ WorkerSteps("w1")
  \/ \E id \in JobIds : GetStatus(id)

SpecStatus == Init /\ [][NextStatus]_vars

\* C24: the status response for a job in the failed state, legal or simple,
\* holds the recorded failure reason, the job's errorMessage; for a job that
\* is not failed it holds no failure reason.
C24_FailureReasonReturned ==
  eval.fn = "getStatus" =>
    LET job == jobs[eval.arg] IN
      IF job.status = "FAILED"
      THEN eval.out.failure_reason # NULL /\ eval.out.failure_reason = job.errorMessage
      ELSE eval.out.failure_reason = NULL

\* C25: the synchronous waiter never writes to the job store: the step that
\* ends a wait, by a poll or by the timeout, leaves every job and the queue of
\* runs as they were and answers with the id of the job waited for, 202 on
\* timeout; the job goes on and can be completed afterwards.
C25_WaiterNeverWrites ==
  [][\A c \in Clients :
       (cpc[c] = "wait" /\ cpc'[c] # "wait")
         => /\ jobs' = jobs
            /\ deliveries' = deliveries
            /\ cres'[c].jobId = cres[c].jobId
            /\ cres'[c].jobId \in DOMAIN jobs
            /\ cres'[c].http \in {200, 202}
            /\ jobs[cres[c].jobId].status \notin {"COMPLETED", "FAILED"} => cres'[c].http = 202]_vars

\* A wait timed out, the caller got 202, and the job was completed all the same
C25_Witness ==
  \E c \in Clients :
    /\ cpc[c] = "done"
    /\ creq[c].analysisType # "legal"
    /\ cres[c].http = 202
    /\ jobs[cres[c].jobId].status = "COMPLETED"
    /\ jobs[cres[c].jobId].analysis # NULL

\* The job is of a simple kind (not legal)
Simple(job) == job.analysisType # "legal"

\* The statuses a simple job goes through when nothing fails
SimplePath == <<"PENDING", "SCRAPING", "ANALYZING", "COMPLETED">>

\* C26: a simple job is created PENDING; its status changes only along
\* PENDING, SCRAPING, ANALYZING, COMPLETED, one step at a time, or to FAILED,
\* and FAILED is entered only from SCRAPING or ANALYZING; a COMPLETED job has
\* a result and no errorMessage.
C26_SimpleStatusPath ==
  /\ [](\A id \in DOMAIN jobs :
          (Simple(jobs[id]) /\ jobs[id].status = "COMPLETED")
            => jobs[id].analysis # NULL /\ jobs[id].errorMessage = NULL)
  /\ [][\A id \in DOMAIN jobs' :
          Simple(jobs'[id]) =>
            IF id \notin DOMAIN jobs THEN jobs'[id].status = "PENDING"
            ELSE \/ jobs'[id].status = jobs[id].status
                 \/ \E k \in 1..3 : jobs[id].status = SimplePath[k]
                                    /\ jobs'[id].status = SimplePath[k + 1]
                 \/ /\ jobs'[id].status = "FAILED"
                    /\ jobs[id].status \in {"SCRAPING", "ANALYZING"}]_vars

\* ------------------------------------------------ interrupted runs
\* trigger.config.ts maxDuration and retries: the run is interrupted where it
\* is (the process dies or the run is stopped), what it has written stays in
\* the store, and the task is invoked again for the job
TaskInterrupted(w) ==
  /\ wpc[w] # "idle"
  /\ faults < MaxFaults
  /\ faults' = faults + 1
  /\ deliveries' =
       [deliveries EXCEPT ![JobOf(w)][IF wrun[w].attempt < TaskMaxAttempts
                                      THEN wrun[w].attempt + 1
                                      ELSE wrun[w].attempt] = @ + 1]
  /\ Return(w)
  /\ UNCHANGED <<jobs, now, requests, cvars, retry, eval>>

\* One request at a time and one run at a time, a run interrupted being
\* followed by another run
NextResume ==
  \/ ClientSteps("c1")
  \/ WorkerSteps("w1")
  \/ TaskInterrupted("w1")

\* The handler and the task go on as long as they have a step to take: the
\* queued run starts, the store and the collaborators answer
SpecResume ==
  /\ Init
  /\ [][NextResume]_vars
  /\ WF_vars(ClientCall("c1"))
  /\ WF_vars(WorkerSteps("w1"))

\* C27: a legal job is resumable: when every interrupted run is followed by
\* another run and the collaborators answer, the job reaches COMPLETE or
\* FAILED from every stored phase, ANALYZING and SUMMARIZING included.
C27_LegalJobEnds ==
  \A id \in JobIds :
    (id \in DOMAIN jobs /\ jobs[id].analysisType = "legal")
      ~> (id \in DOMAIN jobs /\ jobs[id].currentPhase \in {"COMPLETE", "FAILED"})

\* The step is the return of createAnalysisJob to the handler of client c
CreateReturns(c) == cpc[c] \in CreatePositions /\ cpc'[c] \in {"route", "trigger"}

\* C31: createAnalysisJob returns isCached = true exactly when the job id it
\* returns is that of a job that existed before the call, and isCached = false
\* exactly when the call inserted a new record.
C31_IsCachedIffExisting ==
  [][\A c \in Clients :
       CreateReturns(c) =>
         /\ cres'[c].isCached = (cres'[c].jobId \in DOMAIN jobs)
         /\ (~cres'[c].isCached) = (Len(jobs') = Len(jobs) + 1)]_vars

\* --------------------------------------------- the derived idempotency key
\* number of entries of the urls field of a request
MaxUrls == 3

\* The legal bodies of POST /api/analyze with a urls list, and with or without a
\* content hash; url is the first of urls, as the extension sends it
KeyRequests ==
  { [url |-> urls[1], urls |-> urls, analysisType |-> "legal", idempotencyKey |-> NULL,
     contentHash |-> h] :
      urls \in SeqsUpTo(1..3, MaxUrls) \ {<<>>}, h \in {NULL, "h1"} }

\* routes/analyze.ts lines 58-76 with createAnalysisJob lines 464-468: the key
\* is derived for a request
DeriveKey(r) ==
  /\ eval.pc = "idle"
  /\ eval' = [fn |-> "idempotencyKey", arg |-> <<r>>, out |-> <<RequestKey(r)>>, pc |-> "derived"]
  /\ UNCHANGED <<svars, retry>>

\* The key is derived for another request
DeriveOtherKey(r) ==
  /\ eval.pc = "derived"
  /\ eval.fn = "idempotencyKey"
  /\ eval' = [eval EXCEPT !.arg = Append(@, r), !.out = Append(@, RequestKey(r)),
                          !.pc = "compared"]
  /\ UNCHANGED <<svars, retry>>

NextKey ==
  \/ \E r \in KeyRequests : DeriveKey(r)
  \/ \E r \in KeyRequests : DeriveOtherKey(r)

SpecKey == Init /\ [][NextKey]_vars

\* The set {primaryUrl} \cup documentUrls of a request
UrlSetOf(r) == {PrimaryUrl(r)} \cup {UrlsToAnalyze(r)[i] : i \in DOMAIN UrlsToAnalyze(r)}

\* C32: the idempotency key derived for a legal request depends only on the
\* set of its URLs and on the content fingerprint: two requests derive the
\* same key exactly when they have the same URL set, in any order, with any
\* member first, with or without repeated entries, and the same fingerprint.
C32_KeyOfUrlSet ==
  (eval.fn = "idempotencyKey" /\ eval.pc = "compared") =>
    ((eval.out[1] = eval.out[2])
       = (/\ UrlSetOf(eval.arg[1]) = UrlSetOf(eval.arg[2])
          /\ eval.arg[1].contentHash = eval.arg[2].contentHash))


\* ---------------------------------------------------------------------------
\* The analysis a legal job stores: processScanJob lines 388-441
\* ---------------------------------------------------------------------------

Assessments == {"low_concern", "moderate_concern", "high_concern"}

\* The response of the engine for one document: its risks and the riskSummary
\* it declares itself
LegalResponses ==
  [risks : Responses,
   riskSummary : [totalRisks : 0..MaxRisks, highSeverityCount : 0..MaxRisks,
                  overallAssessment : Assessments]]

\* analyzeLegalDocumentFromUrl lines 1037-1061 with analyzeLegalDocument lines
\* 964-983: the analysis is the parsed response, its riskSummary as the engine
\* wrote it (parseLegalAnalysisResponse only requires it to be present)
analyzeLegalDocumentFromUrl(response) ==
  [risks |-> parseLegalAnalysisResponse(response.risks),
   riskSummary |-> response.riskSummary]

\* processScanJob lines 395-396: a job with one document URL
AnalyzeSingleDocument(response) ==
  /\ eval.pc = "idle"
  /\ eval' = [fn |-> "analyzeLegalDocumentFromUrl", arg |-> <<response.risks>>,
              out |-> analyzeLegalDocumentFromUrl(response), pc |-> "returned"]
  /\ UNCHANGED <<svars, retry>>

\* processScanJob lines 391-394: a job with several document URLs
AnalyzeSeveralDocuments ==
  /\ eval.pc = "analysing"
  /\ Len(eval.arg) > 1
  /\ CombineAnalyses

\* processScanJob lines 417-435: the analysis is stored as the job's result
StoreAnalysis ==
  /\ eval.pc = "returned"
  /\ eval.fn \in {"analyzeLegalDocumentFromUrl", "analyzeMultipleLegalDocuments"}
  /\ eval' = [eval EXCEPT !.pc = "stored"]
  /\ UNCHANGED <<svars, retry>>

NextAnalysis ==
  \/ eval.pc = "idle" /\ \E response \in LegalResponses : AnalyzeSingleDocument(response)
  \/ \E risks \in Responses : AnalyzeDocument(risks)
  \/ AnalyzeSeveralDocuments
  \/ StoreAnalysis

SpecAnalysis == Init /\ [][NextAnalysis]_vars

HighSeverity(risks) == Cardinality({k \in DOMAIN risks : risks[k].severity = "high"})

\* C33: the overallAssessment of the stored result of a completed legal job,
\* with one document URL or several, is the threshold function of the number
\* of high-severity risks in the stored risk list, never the engine's own value
C33_AssessmentFromRisks ==
  eval.pc = "stored" =>
    eval.out.riskSummary.overallAssessment = OverallAssessment(HighSeverity(eval.out.risks))


\* C34: a legal job's earlyFindings are written by an update that comes before
\* the update writing the result: they are present whenever currentPhase is
\* SUMMARIZING or COMPLETE, the update that writes them leaves the result
\* null, the update that writes the result finds them written; a simple-kind
\* job never has earlyFindings
C34_EarlyFindingsFirst ==
  /\ [](\A id \in DOMAIN jobs :
          /\ jobs[id].currentPhase \in {"SUMMARIZING", "COMPLETE"} =>
               jobs[id].earlyFindings # NULL
          /\ Simple(jobs[id]) => jobs[id].earlyFindings = NULL)
  /\ [][\A id \in DOMAIN jobs :
          /\ (jobs[id].earlyFindings = NULL /\ jobs'[id].earlyFindings # NULL) =>
               jobs'[id].analysis = NULL
          /\ (~Simple(jobs[id]) /\ jobs[id].analysis = NULL /\ jobs'[id].analysis # NULL) =>
               jobs[id].earlyFindings # NULL]_vars

\* The early findings are stored, the phase is SUMMARIZING, the result is not
\* written yet
C34_Witness ==
  \E id \in DOMAIN jobs :
    /\ jobs[id].earlyFindings # NULL
    /\ jobs[id].currentPhase = "SUMMARIZING"
    /\ jobs[id].analysis = NULL


\* One request at a time and one run at a time, a run interrupted being
\* followed by another run: no two runs write the same job
SpecSingleWriter == Init /\ [][NextResume]_vars

\* C35: under single-writer execution the stored progressPercent of a legal
\* job never decreases: it is the value of SCAN_PHASE_PROGRESS for the stored
\* phase (0, 5, 25, 40, 70, 90, 100 in phase order), and the transition to
\* FAILED leaves the value last written
C35_ProgressNeverDecreases ==
  /\ [](\A id \in DOMAIN jobs :
          (~Simple(jobs[id]) /\ jobs[id].currentPhase # "FAILED") =>
            jobs[id].progressPercent = SCAN_PHASE_PROGRESS(jobs[id].currentPhase))
  /\ [][\A id \in DOMAIN jobs :
          ~Simple(jobs[id]) =>
            /\ jobs'[id].progressPercent >= jobs[id].progressPercent
            /\ (jobs[id].currentPhase # "FAILED" /\ jobs'[id].currentPhase = "FAILED") =>
                 jobs'[id].progressPercent = jobs[id].progressPercent]_vars

\* A legal job failed after its progress had risen, and keeps the progress
C35_Witness ==
  \E id \in DOMAIN jobs :
    /\ jobs[id].currentPhase = "FAILED"
    /\ jobs[id].progressPercent = SCAN_PHASE_PROGRESS("ANALYZING")


AllFailed(outcomes) == \A i \in DOMAIN outcomes : outcomes[i] # "ok"

\* C36: within one scrapeWebsite call the attempts on a provider are numbered
\* 1 to 3, Jina Reader is attempted only when there is no Firecrawl key or
\* after three failed attempts with Firecrawl, no delay is slept after the
\* final attempt on a provider, and the call throws only when every attempt on
\* every eligible provider has failed; within one analyzeWithGemini or
\* analyzeLegalDocument call the model is invoked at most 3 times
C36_BoundedAttempts ==
  /\ [](/\ retry.attempt <= MAX_RETRIES
        /\ retry.fn \in EngineFunctions => Len(retry.outcomes) <= MAX_RETRIES
        /\ retry.fn = "scrapeWebsite" => Len(retry.outcomes) <= 2 * MAX_RETRIES)
  /\ [][(retry.fn = "scrapeWebsite" /\ retry.pc = "loop" /\ retry' # retry) =>
          /\ Len(retry'.outcomes) = Len(retry.outcomes) + 1
          /\ (retry'.pc = "loop" /\ retry'.provider = retry.provider) =>
               retry'.attempt = retry.attempt + 1
          /\ retry'.provider # retry.provider =>
               /\ retry.provider = "firecrawl" /\ retry'.provider = "jina"
               /\ retry'.attempt = 1
               /\ Len(retry'.outcomes) = MAX_RETRIES /\ AllFailed(retry'.outcomes)
          /\ retry.attempt = MAX_RETRIES => retry'.delays = retry.delays
          /\ retry'.pc = "thrown" =>
               /\ retry.provider = "jina" /\ retry.attempt = MAX_RETRIES
               /\ Len(retry'.outcomes) \in {MAX_RETRIES, 2 * MAX_RETRIES}
               /\ AllFailed(retry'.outcomes)]_vars

\* Both providers failed three times each: six attempts, four delays slept
C36_Witness ==
  /\ retry.fn = "scrapeWebsite"
  /\ retry.pc = "thrown"
  /\ Len(retry.outcomes) = 2 * MAX_RETRIES
  /\ Len(retry.delays) = 2 * (MAX_RETRIES - 1)


\* C37: under single-writer execution the status and the currentPhase of a
\* legal job agree in every reachable state: COMPLETE goes with COMPLETED,
\* FAILED with FAILED, every other phase with PENDING; a simple-kind job has
\* no currentPhase
C37_StatusAgreesWithPhase ==
  \A id \in DOMAIN jobs :
    IF Simple(jobs[id])
    THEN jobs[id].currentPhase = NULL
    ELSE /\ (jobs[id].currentPhase = "COMPLETE") = (jobs[id].status = "COMPLETED")
         /\ (jobs[id].currentPhase = "FAILED") = (jobs[id].status = "FAILED")
         /\ jobs[id].currentPhase \notin {"COMPLETE", "FAILED"} => jobs[id].status = "PENDING"

\* A legal job failed while it was analysed: phase and status are both FAILED
C37_Witness ==
  \E id \in DOMAIN jobs :
    /\ jobs[id].currentPhase = "FAILED"
    /\ jobs[id].status = "FAILED"
    /\ jobs[id].lastCompletedPhase = "ANALYZING"


\* C38: a job createAnalysisJob returns as a 7-day cache hit has the analysis
\* kind of the request: a legal request is never answered with the cached job
\* of another kind for the same normalized URL
C38_CacheHitSameKind ==
  [][\A c \in Clients :
       (cpc[c] = "verifyCached" /\ CreateReturns(c)) =>
         jobs[cres'[c].jobId].analysisType = creq[c].analysisType]_vars


\* ---------------------------------------------------------------------------
\* The document URLs of a legal job: createAnalysisJob lines 464-536 and
\* processScanJob lines 331-399
\* ---------------------------------------------------------------------------

\* The additionalUrls argument of createAnalysisJob: absent (<<>>) or a list
AdditionalUrlLists == SeqsUpTo(1..3, MaxUrls)

\* createAnalysisJob lines 464-536 for a legal job with no key given: the key
\* is derived from documentUrls and the record is built
CreateLegalJob(url, additionalUrls) ==
  /\ eval.pc = "idle"
  /\ eval' = [fn |-> "createAnalysisJob",
              arg |-> [url |-> url, additionalUrls |-> additionalUrls],
              out |-> [job |-> JobData(url, normalizeUrl(url), "legal", additionalUrls,
                                       IdempotencyKeyOf(url, "legal", additionalUrls, NULL, NULL),
                                       NULL),
                       analysed |-> <<>>, runs |-> 0],
              pc |-> "created"]
  /\ UNCHANGED <<svars, retry>>

\* processScanJob lines 391-396: the URLs given to the engine
AnalysedUrls(job) ==
  IF Len(AllUrls(job)) > 1 THEN AllUrls(job) ELSE <<job.url>>

\* processScanJob lines 331-359: a run reads the job, takes allUrls from it and
\* stores them as the metadata of the fetched content; a later run reads the
\* job with that metadata
ScanDocumentUrls ==
  /\ eval.fn = "createAnalysisJob"
  /\ eval.pc \in {"created", "fetched"}
  /\ eval' = [eval EXCEPT !.out.analysed = AnalysedUrls(eval.out.job),
                          !.out.job.additionalUrls = AllUrls(eval.out.job),
                          !.out.job.scraped = TRUE,
                          !.out.runs = @ + 1,
                          !.pc = IF eval.pc = "created" THEN "fetched" ELSE "resumed"]
  /\ UNCHANGED <<svars, retry>>

NextUrls ==
  \/ \E url \in 1..3, additionalUrls \in AdditionalUrlLists : CreateLegalJob(url, additionalUrls)
  \/ ScanDocumentUrls

SpecUrls == Init /\ [][NextUrls]_vars

Elements(s) == {s[i] : i \in DOMAIN s}

C40_FailedNotReportedPending ==
  [][\A c \in Clients :
       (cpc[c] = "wait" /\ cpc'[c] = "done" /\ Simple(jobs[cres[c].jobId])) =>
         ~(/\ jobs[cres[c].jobId].status = "FAILED"
           /\ cres'[c].http = 202
           /\ cres'[c].status = "PENDING")]_vars

====
